---- MODULE Spec2Model ----
(***************************************************************************)
(* A model of pathman (sfkleach/pathman): the PATH composer                *)
(* (folder.GetAdjustedPath), the managed-directory configuration           *)
(* (folder.addDirectory, folder.removeDirectory, config.Load and Save),    *)
(* the clash checks (folder.CheckNameClashes,                              *)
(* folder.CheckPathClashesWithDirs, folder.checkPathMasking), the symlink  *)
(* commands (folder.Add, folder.Remove, folder.Rename,                     *)
(* folder.SetPriority), the cleanup (folder.FindCleanupItems,              *)
(* folder.PerformCleanup) with its interactive UI (cleanModel), the bash   *)
(* profile (folder.AddToProfile) and the interactive init UI (initModel).  *)
(*                                                                         *)
(* Strings are sequences of one-character strings, so that strings.Split,  *)
(* strings.Join and filepath.SplitList are modelled by what they do.       *)
(***************************************************************************)
EXTENDS Integers, Sequences, FiniteSets, TLC

\* ------------------------------------------------------------------ bounds
\* Largest number of entries of the PATH values the environment starts with.
MaxPathLen == 3
\* Largest number of managed directories held by the configuration.
MaxDirs == 2
\* The number of copies of the shell snippet after which the profile is no
\* longer written.
MaxCopies == 3

\* ----------------------------------------------------------------- strings
\* os.PathListSeparator on Unix.
PathListSeparator == ":"

\* The managed folder (config.GetDefaultManagedFolder), an absolute path.
GetManagedFolder == <<"/", "m">>

\* filepath.Join(dir, elem) for a clean dir and a single element.
FilepathJoin(dir, elem) ==
    IF dir = <<>> THEN elem ELSE dir \o <<"/">> \o elem

GetFrontFolder == FilepathJoin(GetManagedFolder, <<"f", "r", "o", "n", "t">>)
GetBackFolder == FilepathJoin(GetManagedFolder, <<"b", "a", "c", "k">>)

\* strings.Split(s, sep): one more element than there are separators in s,
\* so the empty string splits into one empty element.
RECURSIVE SplitFrom(_, _, _)
SplitFrom(s, i, cur) ==
    IF i > Len(s) THEN <<cur>>
    ELSE IF s[i] = PathListSeparator
         THEN <<cur>> \o SplitFrom(s, i + 1, <<>>)
         ELSE SplitFrom(s, i + 1, Append(cur, s[i]))

StringsSplit(s) == SplitFrom(s, 1, <<>>)

\* strings.Join(parts, sep).
RECURSIVE StringsJoin(_)
StringsJoin(parts) ==
    IF Len(parts) = 0 THEN <<>>
    ELSE IF Len(parts) = 1 THEN parts[1]
    ELSE parts[1] \o <<PathListSeparator>> \o StringsJoin(Tail(parts))

\* filepath.SplitList(path): the empty string gives the empty list.
FilepathSplitList(path) ==
    IF path = <<>> THEN <<>> ELSE StringsSplit(path)

\* The elements of a sequence, and the number of times x occurs in it.
Range(s) == {s[i] : i \in DOMAIN s}
Count(s, x) == Cardinality({i \in DOMAIN s : s[i] = x})

\* -------------------------------------------------------------- file system
\* Directories outside the managed folder.  DirA and DirB can be handed to
\* `pathman add`; DirU is never managed.  DirASlash names DirA with a
\* trailing slash: the same directory, a different string.
DirA == <<"/", "a">>
DirB == <<"/", "b">>
DirU == <<"/", "u">>
DirASlash == <<"/", "a", "/">>

\* The symlink (file) names used.
Foo == <<"f", "o", "o">>
Bar == <<"b", "a", "r">>
Names == {Foo, Bar}
\* os.ReadDir returns the entries of a directory sorted by file name.
ReadDirOrder == <<Bar, Foo>>

\* The target every symlink of the model points to.
ToolPath == <<"/", "o", "/", "f", "o", "o">>

\* A second file named foo, in another directory, and a path with no file.
DirO == <<"/", "o">>
DirP == <<"/", "p">>
ToolPath2 == <<"/", "p", "/", "f", "o", "o">>
MissingPath == <<"/", "o", "/", "b", "a", "r">>
\* The working directory of the commands (os.Getwd).
Getwd == DirO

\* One child of the front or back folder: nothing, a symbolic link, or a
\* regular file that somebody copied there.
NoEntry == [kind |-> "none", target |-> <<>>]
Symlink(t) == [kind |-> "symlink", target |-> t]
RegularFile == [kind |-> "file", target |-> <<>>]

\* The directories whose files the clash checks look at.
OtherDirs == {DirA, DirU}

VARIABLES
    pathEnv,    \* os.Getenv("PATH")
    cfg,        \* config.Config.ManagedDirectories, as saved in config.json
    front,      \* the children of the front folder, by name
    back,       \* the children of the back folder, by name
    files,      \* the files of the other directories: <<dir, name>> -> kind
    out,        \* what the last command returned
    dirState,   \* what os.Stat finds at each directory path
    configFile, \* config.json: whether it exists, and its text
    items,      \* the []CleanupItem held by `pathman clean`
    model,      \* the bubbletea model of the interactive UI that is running
    running,    \* the tea.Cmd that the UI has started and not yet heard of
    profile     \* the bash profile: whether it exists, and its text

vars ==
    <<pathEnv, cfg, front, back, files, out, dirState, configFile, items,
      model, running, profile>>

\* The result of a command: its name, the text or the clash list it
\* returns, and its error ("" when it succeeds).  names is the list of name
\* clashes, which only `pathman summary` fills; note is the message that
\* `pathman add` prints.
Result(cmd, text, clashes, err, at) ==
    [cmd |-> cmd, text |-> text, clashes |-> clashes, err |-> err, at |-> at,
     names |-> <<>>, note |-> ""]
NoResult == Result("none", <<>>, <<>>, "", <<>>)

\* No interactive UI is running, and none has started a command.
NoModel == [stage |-> "none"]
NoCmd == [kind |-> "none"]

\* A bash profile that does not exist.
NoProfile == [exists |-> FALSE, readable |-> TRUE, data |-> <<>>]

\* What os.Stat finds at a directory path: a directory, nothing, a regular
\* file, or an error other than "not exist" (EACCES on a parent).
DirStates == {"dir", "missing", "file", "denied"}
KnownDirs == {DirA, DirB, DirU, GetFrontFolder, GetBackFolder}
AllDirectories == [d \in KnownDirs |-> "dir"]

\* folder.Exists(folderPath): os.Stat succeeds and finds a directory.
Exists(folderPath) ==
    /\ folderPath \in DOMAIN dirState
    /\ dirState[folderPath] = "dir"

\* The child of a folder under a name (os.Lstat of folder/name).
Lookup(folder, name) ==
    IF name \in DOMAIN folder THEN folder[name] ELSE NoEntry

\* Mutant: os.Lstat never finds the child.
LstatOK_never(folder, name) == FALSE

\* os.Lstat(filepath.Join(folderPath, name)) succeeds.
LstatOK(folder, name) == Lookup(folder, name).kind # "none"

\* Mutant: os.Remove leaves the folder as it is.
OsRemove_nothing(folder, name) == folder

\* The folder after os.Remove(filepath.Join(folderPath, name)).
OsRemove(folder, name) ==
    IF name \in DOMAIN folder THEN [folder EXCEPT ![name] = NoEntry]
    ELSE folder

\* ------------------------------------------------------------ configuration
ManagedDirectory(path, priority) == [Path |-> path, Priority |-> priority]

\* The index of the first entry of c with path p, 0 when there is none.
IndexOfDir(c, p) ==
    IF \E i \in DOMAIN c : c[i].Path = p
    THEN CHOOSE i \in DOMAIN c :
            /\ c[i].Path = p
            /\ \A j \in DOMAIN c : c[j].Path = p => i <= j
    ELSE 0

\* Mutant: the path is appended whether or not it is managed.
addDirectory_append(c, absPath, atFront) ==
    Append(c, ManagedDirectory(absPath, IF atFront THEN "front" ELSE "back"))

\* folder.addDirectory: the configuration after adding absPath.  A managed
\* path keeps its place and takes the new priority; a new path is appended.
addDirectory(c, absPath, atFront) ==
    LET priority == IF atFront THEN "front" ELSE "back"
        i == IndexOfDir(c, absPath)
    IN  IF i # 0
        THEN IF c[i].Priority = priority
             THEN c
             ELSE [c EXCEPT ![i].Priority = priority]
        ELSE Append(c, ManagedDirectory(absPath, priority))

\* The message folder.addDirectory prints.
addDirectoryNote(c, absPath, atFront) ==
    LET i == IndexOfDir(c, absPath)
    IN  IF i = 0 THEN "Added directory"
        ELSE IF c[i].Priority = (IF atFront THEN "front" ELSE "back")
        THEN "Directory already managed"
        ELSE "Updated directory priority"

\* folder.removeDirectory: the configuration without its entry number i.
removeDirectoryAt(c, i) ==
    SubSeq(c, 1, i - 1) \o SubSeq(c, i + 1, Len(c))

\* -------------------------------------------------------------- config.json
\* The file is its text, one character per element.  json.MarshalIndent
\* also writes line breaks and indentation, which json.Unmarshal skips;
\* the model leaves them out.
NoConfigFile == [exists |-> FALSE, data |-> <<>>]
ConfigFile(data) == [exists |-> TRUE, data |-> data]

Quote == "\""
\* {"managed_directories":
ConfigHeader ==
    <<"{", Quote, "m", "a", "n", "a", "g", "e", "d", "_", "d", "i", "r", "e",
      "c", "t", "o", "r", "i", "e", "s", Quote, ":">>
\* {"path":
PathKey == <<"{", Quote, "p", "a", "t", "h", Quote, ":">>
\* ,"priority":
PriorityKey ==
    <<",", Quote, "p", "r", "i", "o", "r", "i", "t", "y", Quote, ":">>

\* The characters of a priority, and the priority they spell.
PriorityText(priority) ==
    IF priority = "front" THEN <<"f", "r", "o", "n", "t">>
    ELSE IF priority = "back" THEN <<"b", "a", "c", "k">>
    ELSE <<>>
PriorityNamed(text) ==
    IF text = PriorityText("front") THEN "front"
    ELSE IF text = PriorityText("back") THEN "back"
    ELSE ""

\* A JSON string (the paths of the model need no escape).
JSONString(text) == <<Quote>> \o text \o <<Quote>>

\* json.Marshal of one ManagedDirectory, fields in declaration order.
MarshalDirectory(dir) ==
    PathKey \o JSONString(dir.Path) \o PriorityKey
        \o JSONString(PriorityText(dir.Priority)) \o <<"}">>

RECURSIVE MarshalDirectories(_)
MarshalDirectories(c) ==
    IF Len(c) = 0 THEN <<>>
    ELSE IF Len(c) = 1 THEN MarshalDirectory(c[1])
    ELSE MarshalDirectory(c[1]) \o <<",">> \o MarshalDirectories(Tail(c))

\* Config.Save: the file written for the managed-directory list c.
ConfigSave(c) ==
    ConfigFile(ConfigHeader \o <<"[">> \o MarshalDirectories(c)
                   \o <<"]", "}">>)

\* The text lit stands in s at position i.
HasPrefixAt(s, i, lit) ==
    /\ i + Len(lit) - 1 <= Len(s)
    /\ SubSeq(s, i, i + Len(lit) - 1) = lit

\* The JSON string that starts at position i of s, and the position after
\* it; next = 0 when there is none.
ReadString(s, i) ==
    IF i <= Len(s) /\ s[i] = Quote /\ \E j \in (i + 1)..Len(s) : s[j] = Quote
    THEN LET j == CHOOSE j \in (i + 1)..Len(s) :
                      /\ s[j] = Quote
                      /\ \A k \in (i + 1)..Len(s) : s[k] = Quote => j <= k
         IN  [val |-> SubSeq(s, i + 1, j - 1), next |-> j + 1]
    ELSE [val |-> <<>>, next |-> 0]

\* Mutant: each object read is put in front of those read before it.
RECURSIVE UnmarshalDirectories_prepend(_, _, _)
UnmarshalDirectories_prepend(s, i, acc) ==
    LET path == ReadString(s, i + Len(PathKey))
        priority == ReadString(s, path.next + Len(PriorityKey))
        read == <<ManagedDirectory(path.val, PriorityNamed(priority.val))>>
                    \o acc
        bad == [dirs |-> <<>>, next |-> 0]
    IN  IF ~HasPrefixAt(s, i, PathKey) \/ path.next = 0 THEN bad
        ELSE IF ~HasPrefixAt(s, path.next, PriorityKey) \/ priority.next = 0
        THEN bad
        ELSE IF ~HasPrefixAt(s, priority.next, <<"}">>) THEN bad
        ELSE IF HasPrefixAt(s, priority.next + 1, <<",">>)
        THEN UnmarshalDirectories_prepend(s, priority.next + 2, read)
        ELSE [dirs |-> read, next |-> priority.next + 1]

\* The ManagedDirectory objects that start at position i of s, appended to
\* acc, and the position after the last; next = 0 on a syntax error.  The
\* fields are read in the order Save writes them.
RECURSIVE UnmarshalDirectories(_, _, _)
UnmarshalDirectories(s, i, acc) ==
    LET path == ReadString(s, i + Len(PathKey))
        priority == ReadString(s, path.next + Len(PriorityKey))
        read == Append(acc, ManagedDirectory(path.val,
                                             PriorityNamed(priority.val)))
        bad == [dirs |-> <<>>, next |-> 0]
    IN  IF ~HasPrefixAt(s, i, PathKey) \/ path.next = 0 THEN bad
        ELSE IF ~HasPrefixAt(s, path.next, PriorityKey) \/ priority.next = 0
        THEN bad
        ELSE IF ~HasPrefixAt(s, priority.next, <<"}">>) THEN bad
        ELSE IF HasPrefixAt(s, priority.next + 1, <<",">>)
        THEN UnmarshalDirectories(s, priority.next + 2, read)
        ELSE [dirs |-> read, next |-> priority.next + 1]

\* config.Load: no file gives the empty configuration and no error.
ConfigLoad(file) ==
    LET s == file.data
        i == Len(ConfigHeader) + 2
        read == UnmarshalDirectories(s, i, <<>>)
        bad == [dirs |-> <<>>, err |-> "failed to parse config file"]
    IN  IF ~file.exists THEN [dirs |-> <<>>, err |-> ""]
        ELSE IF ~HasPrefixAt(s, 1, ConfigHeader \o <<"[">>) THEN bad
        ELSE IF HasPrefixAt(s, i, <<"]", "}">>) /\ Len(s) = i + 1
        THEN [dirs |-> <<>>, err |-> ""]
        ELSE IF /\ read.next # 0
                /\ HasPrefixAt(s, read.next, <<"]", "}">>)
                /\ Len(s) = read.next + 1
        THEN [dirs |-> read.dirs, err |-> ""]
        ELSE bad

\* ------------------------------------------------------------ path composer
\* The directory paths of the configuration with / without priority "front",
\* in configuration order (GetAdjustedPath, "Separate directories by
\* priority").
RECURSIVE frontDirs(_)
frontDirs(c) ==
    IF Len(c) = 0 THEN <<>>
    ELSE IF c[1].Priority = "front"
         THEN <<c[1].Path>> \o frontDirs(Tail(c))
         ELSE frontDirs(Tail(c))

RECURSIVE backDirs(_)
backDirs(c) ==
    IF Len(c) = 0 THEN <<>>
    ELSE IF c[1].Priority = "front"
         THEN backDirs(Tail(c))
         ELSE <<c[1].Path>> \o backDirs(Tail(c))

\* Mutant: only the two subfolders count as managed.
managedPaths_foldersOnly(c) == {GetFrontFolder, GetBackFolder}

\* The set of all managed paths: both subfolders and every managed directory.
managedPaths(c) ==
    {GetFrontFolder, GetBackFolder} \cup {c[i].Path : i \in DOMAIN c}

\* filepath.Clean, as far as the model's paths need it: no trailing slash.
FilepathClean(p) ==
    IF Len(p) > 1 /\ p[Len(p)] = "/" THEN SubSeq(p, 1, Len(p) - 1) ELSE p

\* Mutant: a PATH entry is compared after filepath.Clean (as IsOnPath does).
isManagedPart_clean(part, c) == FilepathClean(part) \in managedPaths(c)

\* managedPaths[part]: exact, textual comparison of a PATH entry.
isManagedPart(part, c) == part \in managedPaths(c)

\* Mutant: every string is kept once only.
RECURSIVE cleanedParts_dedup(_, _)
cleanedParts_dedup(pathParts, c) ==
    IF Len(pathParts) = 0 THEN <<>>
    ELSE LET n == Len(pathParts)
             rest == cleanedParts_dedup(SubSeq(pathParts, 1, n - 1), c)
         IN  IF isManagedPart(pathParts[n], c) \/ pathParts[n] \in Range(rest)
             THEN rest
             ELSE Append(rest, pathParts[n])

\* The entries of the split PATH that are not managed paths, in order.
RECURSIVE cleanedParts(_, _)
cleanedParts(pathParts, c) ==
    IF Len(pathParts) = 0 THEN <<>>
    ELSE IF isManagedPart(pathParts[1], c)
         THEN cleanedParts(Tail(pathParts), c)
         ELSE <<pathParts[1]>> \o cleanedParts(Tail(pathParts), c)

\* Mutant: the back directories are placed before the rest of PATH.
newPathParts_backDirsFirst(cleaned, c) ==
    <<GetFrontFolder>> \o frontDirs(c) \o backDirs(c) \o cleaned
        \o <<GetBackFolder>>

\* "Build new PATH: front subfolder + front dirs + cleaned parts + back dirs
\* + back subfolder."
newPathParts(cleaned, c) ==
    <<GetFrontFolder>> \o frontDirs(c) \o cleaned \o backDirs(c)
        \o <<GetBackFolder>>

\* Mutant: the empty PATH is split like any other.
GetAdjustedPath_noEmptyCase(p, c) ==
    StringsJoin(newPathParts(cleanedParts(StringsSplit(p), c), c))

\* folder.GetAdjustedPath for PATH p and configuration c.
GetAdjustedPath(p, c) ==
    IF p = <<>>
    THEN StringsJoin(<<GetFrontFolder>> \o frontDirs(c) \o backDirs(c)
                        \o <<GetBackFolder>>)
    ELSE StringsJoin(newPathParts(cleanedParts(StringsSplit(p), c), c))

\* ------------------------------------------------------------- clash checks
\* The kinds of a file of another directory: absent, a regular file with an
\* executable bit, a regular file without one.
FileKinds == {"none", "exec", "plain"}

\* os.Stat(filepath.Join(dir, name)) succeeds.
StatOK(dir, name) ==
    /\ <<dir, name>> \in DOMAIN files
    /\ files[<<dir, name>>] \notin {"none", "denied"}

\* The index of the first element of pathDirs equal to dir; 0 stands for the
\* code's -1 (indices of the model start at 1).
PositionOf(pathDirs, dir) ==
    IF \E i \in DOMAIN pathDirs : pathDirs[i] = dir
    THEN CHOOSE i \in DOMAIN pathDirs :
            /\ pathDirs[i] = dir
            /\ \A j \in DOMAIN pathDirs : pathDirs[j] = dir => i <= j
    ELSE 0

\* The symlinks of a folder in os.ReadDir order, as SymlinkInfo records.
RECURSIVE SymlinksIn(_, _, _)
SymlinksIn(folder, priority, order) ==
    IF Len(order) = 0 THEN <<>>
    ELSE IF folder[order[1]].kind = "symlink"
         THEN <<[Name |-> order[1], Target |-> folder[order[1]].target,
                 Priority |-> priority]>>
              \o SymlinksIn(folder, priority, Tail(order))
         ELSE SymlinksIn(folder, priority, Tail(order))

\* folder.ListLongBoth: the front folder first, then the back folder.
ListLongBoth ==
    SymlinksIn(front, "front", ReadDirOrder)
        \o SymlinksIn(back, "back", ReadDirOrder)

ManagedExec(name, path, priority) ==
    [Name |-> name, Path |-> path, Priority |-> priority]

\* The ManagedExec of each symlink.  The code sets Path to frontFolder for
\* every symlink, whichever folder holds it.
RECURSIVE SymlinkExecs(_)
SymlinkExecs(symlinks) ==
    IF Len(symlinks) = 0 THEN <<>>
    ELSE <<ManagedExec(symlinks[1].Name, GetFrontFolder,
                       symlinks[1].Priority)>>
         \o SymlinkExecs(Tail(symlinks))

\* The executable files of one managed directory, in os.ReadDir order.
RECURSIVE DirExecs(_, _)
DirExecs(dir, order) ==
    IF Len(order) = 0 THEN <<>>
    ELSE IF /\ <<dir.Path, order[1]>> \in DOMAIN files
            /\ files[<<dir.Path, order[1]>>] = "exec"
         THEN <<ManagedExec(order[1], dir.Path, dir.Priority)>>
              \o DirExecs(dir, Tail(order))
         ELSE DirExecs(dir, Tail(order))

\* "Get executables from managed directories."
RECURSIVE ManagedDirExecs(_)
ManagedDirExecs(c) ==
    IF Len(c) = 0 THEN <<>>
    ELSE DirExecs(c[1], ReadDirOrder) \o ManagedDirExecs(Tail(c))

\* managedExecs of CheckPathClashesWithDirs.
managedExecs == SymlinkExecs(ListLongBoth) \o ManagedDirExecs(cfg)

Clash(name, kind, execPath) ==
    [Name |-> name, Kind |-> kind, ExecPath |-> execPath]

\* Mutant: the scan does not stop at the first hit.
RECURSIVE scanPathDirs_noBreak(_, _, _, _, _)
scanPathDirs_noBreak(exec, execPosition, pathDirs, i, managed) ==
    IF i > Len(pathDirs) THEN <<>>
    ELSE IF pathDirs[i] \in managed
              \/ ~StatOK(pathDirs[i], exec.Name)
         THEN scanPathDirs_noBreak(exec, execPosition, pathDirs, i + 1,
                                   managed)
         ELSE <<Clash(exec.Name,
                      IF i < execPosition THEN "masked by" ELSE "masks",
                      FilepathJoin(pathDirs[i], exec.Name))>>
              \o scanPathDirs_noBreak(exec, execPosition, pathDirs, i + 1,
                                      managed)

\* "Check all PATH directories for the same executable name", from index i:
\* managed paths are skipped and the first hit is reported.
RECURSIVE scanPathDirs(_, _, _, _, _)
scanPathDirs(exec, execPosition, pathDirs, i, managed) ==
    IF i > Len(pathDirs) THEN <<>>
    ELSE IF pathDirs[i] \in managed
              \/ ~StatOK(pathDirs[i], exec.Name)
         THEN scanPathDirs(exec, execPosition, pathDirs, i + 1, managed)
         ELSE <<Clash(exec.Name,
                      IF i < execPosition THEN "masked by" ELSE "masks",
                      FilepathJoin(pathDirs[i], exec.Name))>>

\* The clashes of the managed executables execs, in order.
RECURSIVE clashesOf(_, _, _)
clashesOf(execs, pathDirs, managed) ==
    IF Len(execs) = 0 THEN <<>>
    ELSE LET execPosition == PositionOf(pathDirs, execs[1].Path)
         IN  (IF execPosition = 0
              THEN <<>>
              ELSE scanPathDirs(execs[1], execPosition, pathDirs, 1,
                                managed))
             \o clashesOf(Tail(execs), pathDirs, managed)

\* folder.CheckPathClashesWithDirs.
CheckPathClashesWithDirs ==
    IF pathEnv = <<>> THEN <<>>
    ELSE clashesOf(managedExecs, FilepathSplitList(pathEnv),
                   managedPaths(cfg))

\* The loop of checkPathMasking from index i: the two subfolders are
\* skipped; a hit is an error unless the target folder is not on PATH.
RECURSIVE scanForMasking(_, _, _, _)
scanForMasking(symlinkName, symlinkPosition, pathDirs, i) ==
    IF i > Len(pathDirs) THEN [err |-> "", at |-> <<>>]
    ELSE IF \/ pathDirs[i] = GetFrontFolder
            \/ pathDirs[i] = GetBackFolder
            \/ ~StatOK(pathDirs[i], symlinkName)
            \/ symlinkPosition = 0
         THEN scanForMasking(symlinkName, symlinkPosition, pathDirs, i + 1)
         ELSE [err |-> IF i < symlinkPosition THEN "will be masked by"
                       ELSE "will mask",
               at |-> FilepathJoin(pathDirs[i], symlinkName)]

\* Mutant: no masking is ever found.
checkPathMasking_never(symlinkName, atFront) == [err |-> "", at |-> <<>>]

\* folder.checkPathMasking.
checkPathMasking(symlinkName, atFront) ==
    IF pathEnv = <<>> THEN [err |-> "", at |-> <<>>]
    ELSE LET pathDirs == FilepathSplitList(pathEnv)
             symlinkPosition ==
                 PositionOf(pathDirs,
                            IF atFront THEN GetFrontFolder ELSE GetBackFolder)
         IN  scanForMasking(symlinkName, symlinkPosition, pathDirs, 1)

\* ------------------------------------------------------------- name clashes
\* Mutant: every child of the folder is listed, symlink or not.
RECURSIVE List_everyChild(_, _)
List_everyChild(folder, order) ==
    IF Len(order) = 0 THEN <<>>
    ELSE IF folder[order[1]].kind # "none"
         THEN <<order[1]>> \o List_everyChild(folder, Tail(order))
         ELSE List_everyChild(folder, Tail(order))

\* folder.List: the names of the symlinks of a folder, in os.ReadDir order.
RECURSIVE List(_, _)
List(folder, order) ==
    IF Len(order) = 0 THEN <<>>
    ELSE IF folder[order[1]].kind = "symlink"
         THEN <<order[1]>> \o List(folder, Tail(order))
         ELSE List(folder, Tail(order))

\* The names of backLinks that frontSet holds, in the order of backLinks.
RECURSIVE namesInBoth(_, _)
namesInBoth(frontSet, backLinks) ==
    IF Len(backLinks) = 0 THEN <<>>
    ELSE IF backLinks[1] \in frontSet
         THEN <<backLinks[1]>> \o namesInBoth(frontSet, Tail(backLinks))
         ELSE namesInBoth(frontSet, Tail(backLinks))

\* folder.CheckNameClashes.
CheckNameClashes ==
    IF ~Exists(GetFrontFolder) \/ ~Exists(GetBackFolder) THEN <<>>
    ELSE namesInBoth(Range(List(front, ReadDirOrder)),
                     List(back, ReadDirOrder))

\* ----------------------------------------------------------------- commands
\* filepath.Base(p) for a clean absolute path: what follows the last slash.
RECURSIVE FilepathBase(_)
FilepathBase(p) ==
    IF Len(p) = 0 \/ p[Len(p)] = "/" THEN <<>>
    ELSE Append(FilepathBase(SubSeq(p, 1, Len(p) - 1)), p[Len(p)])

\* filepath.Abs(p): an absolute path is cleaned, a relative one is joined
\* to the working directory.
FilepathAbs(p) ==
    IF p # <<>> /\ p[1] = "/" THEN FilepathClean(p)
    ELSE FilepathJoin(Getwd, p)

\* What os.Stat(p) finds: "dir", "file", "missing" or "denied".
StatPath(p) ==
    IF p \in DOMAIN dirState THEN dirState[p]
    ELSE IF \E f \in DOMAIN files : FilepathJoin(f[1], f[2]) = p
    THEN LET f == CHOOSE f \in DOMAIN files : FilepathJoin(f[1], f[2]) = p
         IN  IF files[f] = "none" THEN "missing"
             ELSE IF files[f] = "denied" THEN "denied"
             ELSE "file"
    ELSE "missing"

\* folder.addDirectory as a step; printed tells whether the result keeps
\* the message it prints.
AddDirPrinting(absPath, atFront, printed) ==
    /\ Len(addDirectory(cfg, absPath, atFront)) <= MaxDirs
    /\ cfg' = addDirectory(cfg, absPath, atFront)
    /\ configFile' = IF cfg' = cfg THEN configFile ELSE ConfigSave(cfg')
    /\ out' = [Result("add", <<>>, <<>>, "", <<>>)
                  EXCEPT !.note = IF printed
                                  THEN addDirectoryNote(cfg, absPath, atFront)
                                  ELSE ""]
    /\ UNCHANGED <<pathEnv, front, back, files, dirState, items, model,
                   running, profile>>

\* folder.Add for a directory: `pathman add <dir> --priority=...`.
AddDir(absPath, atFront) == AddDirPrinting(absPath, atFront, FALSE)

\* folder.addSymlink as a step; printed tells whether the result keeps the
\* message it prints ("Moved ..." when the other folder held the name).
AddFilePrinting(absExecutablePath, name, atFront, force, printed) ==
    LET symlinkName == IF name = <<>> THEN FilepathBase(absExecutablePath)
                       ELSE name
        folder == IF atFront THEN front ELSE back
        other == IF atFront THEN back ELSE front
        masking == checkPathMasking(symlinkName, atFront)
        created == [folder EXCEPT ![symlinkName] = Symlink(absExecutablePath)]
        removed == OsRemove(other, symlinkName)
    IN  /\ symlinkName \in Names
        /\ IF LstatOK(folder, symlinkName) /\ ~force
           THEN /\ out' = Result("add", <<>>, <<>>, "symlink already exists",
                                 symlinkName)
                /\ UNCHANGED <<front, back>>
           ELSE IF ~force /\ masking.err # ""
           THEN /\ out' = Result("add", <<>>, <<>>, masking.err, masking.at)
                /\ UNCHANGED <<front, back>>
           ELSE /\ out' = [Result("add", <<>>, <<>>, "", <<>>)
                             EXCEPT !.note = IF ~printed THEN ""
                                             ELSE IF LstatOK(other, symlinkName)
                                             THEN "Moved" ELSE "Added"]
                /\ front' = IF atFront THEN created ELSE removed
                /\ back' = IF atFront THEN removed ELSE created
        /\ UNCHANGED <<pathEnv, cfg, files, dirState, configFile, items, model,
                       running, profile>>

\* folder.Add for a file, i.e. folder.addSymlink:
\* `pathman add <file> [--name NAME] --priority=... [--force]`.
AddFile(absExecutablePath, name, atFront, force) ==
    AddFilePrinting(absExecutablePath, name, atFront, force, FALSE)

\* folder.Add: `pathman add <path> [--name NAME] --priority=... [--force]`.
Add(executablePath, name, atFront, force) ==
    LET absPath == FilepathAbs(executablePath)
        found == StatPath(absPath)
    IN  IF found \in {"missing", "denied"}
        THEN /\ out' = Result("add", <<>>, <<>>, "path does not exist", absPath)
             /\ UNCHANGED <<pathEnv, cfg, front, back, files, dirState,
                            configFile, items, model, running, profile>>
        ELSE IF found = "dir" THEN AddDirPrinting(absPath, atFront, TRUE)
        ELSE AddFilePrinting(absPath, name, atFront, force, TRUE)

\* The value of the flag variable priority of NewAddCmd after cobra has
\* parsed the command line: given is <<>> when --priority is absent and
\* <<v>> for --priority=v; StringVar declares the default "front".
PriorityFlag(given) == IF given = <<>> THEN "front" ELSE given[1]

\* NewAddCmd's RunE: `pathman add <path> [--name NAME] [--priority=P]
\* [--force]`.
AddCmd(executable, name, given, force) ==
    LET priority == PriorityFlag(given)
    IN  IF priority \notin {"", "front", "back"}
        THEN /\ out' = Result("add", <<>>, <<>>,
                              "--priority must be 'front' or 'back'", <<>>)
             /\ UNCHANGED <<pathEnv, cfg, front, back, files, dirState,
                            configFile, items, model, running, profile>>
        ELSE Add(executable, name, priority = "front", force)

\* folder.removeSymlink: the error and the two folders it leaves.  A child
\* of the front folder that is not a symlink ends the search.
removeSymlink(name) ==
    IF Exists(GetFrontFolder) /\ LstatOK(front, name)
    THEN IF Lookup(front, name).kind # "symlink"
         THEN [err |-> "is not a symlink", front |-> front, back |-> back]
         ELSE [err |-> "", front |-> OsRemove(front, name), back |-> back]
    ELSE IF Exists(GetBackFolder) /\ LstatOK(back, name)
    THEN IF Lookup(back, name).kind # "symlink"
         THEN [err |-> "is not a symlink", front |-> front, back |-> back]
         ELSE [err |-> "", front |-> front, back |-> OsRemove(back, name)]
    ELSE [err |-> "symlink does not exist", front |-> front, back |-> back]

\* folder.Remove: `pathman remove <name>`; what is not removed as a symlink
\* is looked up, as an absolute path, among the managed directories
\* (folder.removeDirectory).
Remove(name) ==
    LET asSymlink == removeSymlink(name)
        absPath == FilepathAbs(name)
        i == IndexOfDir(cfg, absPath)
    IN  IF asSymlink.err = ""
        THEN /\ front' = asSymlink.front
             /\ back' = asSymlink.back
             /\ out' = Result("remove", <<>>, <<>>, "", name)
             /\ UNCHANGED <<pathEnv, cfg, files, dirState, configFile, items,
                            model, running, profile>>
        ELSE IF i # 0
        THEN /\ cfg' = removeDirectoryAt(cfg, i)
             /\ configFile' = ConfigSave(cfg')
             /\ out' = Result("remove", <<>>, <<>>, "", absPath)
             /\ UNCHANGED <<pathEnv, front, back, files, dirState, items,
                            model, running, profile>>
        ELSE /\ out' = Result("remove", <<>>, <<>>,
                              "not found as symlink or managed directory",
                              absPath)
             /\ UNCHANGED <<pathEnv, cfg, front, back, files, dirState,
                            configFile, items, model, running, profile>>

\* Mutant: os.Rename makes the new name and leaves the old one.
OsRename_keepsOld(folder, oldName, newName) ==
    [folder EXCEPT ![newName] = folder[oldName]]

\* The folder after os.Rename(folder/oldName, folder/newName).
OsRename(folder, oldName, newName) ==
    [folder EXCEPT ![newName] = folder[oldName], ![oldName] = NoEntry]

\* What folder.Rename does in one of the two folders once os.Lstat has found
\* oldName there: the error and the folder it leaves.
renameIn(folder, oldName, newName) ==
    IF Lookup(folder, oldName).kind # "symlink"
    THEN [err |-> "is not a symlink", folder |-> folder]
    ELSE IF LstatOK(folder, newName)
    THEN [err |-> "symlink already exists", folder |-> folder]
    ELSE [err |-> "", folder |-> OsRename(folder, oldName, newName)]

\* folder.Rename: `pathman rename <old> <new>`.  The front folder is looked
\* at first, and the folder where os.Lstat finds oldName decides the result;
\* newName is looked up in that folder only.
Rename(oldName, newName) ==
    LET inFront == renameIn(front, oldName, newName)
        inBack == renameIn(back, oldName, newName)
    IN  /\ oldName \in Names
        /\ newName \in Names
        /\ IF Exists(GetFrontFolder) /\ LstatOK(front, oldName)
           THEN /\ front' = inFront.folder
                /\ back' = back
                /\ out' = [Result("rename", <<>>, <<>>, inFront.err, oldName)
                             EXCEPT !.note = "front"]
           ELSE IF Exists(GetBackFolder) /\ LstatOK(back, oldName)
           THEN /\ front' = front
                /\ back' = inBack.folder
                /\ out' = [Result("rename", <<>>, <<>>, inBack.err, oldName)
                             EXCEPT !.note = "back"]
           ELSE /\ out' = Result("rename", <<>>, <<>>,
                                 "symlink does not exist", oldName)
                /\ UNCHANGED <<front, back>>
        /\ UNCHANGED <<pathEnv, cfg, files, dirState, configFile, items, model,
                       running, profile>>

\* The directories after folder.Create, i.e. os.MkdirAll(folderPath): a
\* missing folder is made, a folder that is there is left as it is.
MkdirAll(folderPath) ==
    IF folderPath \in DOMAIN dirState /\ dirState[folderPath] = "missing"
    THEN [dirState EXCEPT ![folderPath] = "dir"]
    ELSE dirState

\* Mutant: os.Symlink makes nothing.
OsSymlink_nothing(folder, name, target) == folder

\* The folder after os.Symlink(target, folder/name).
OsSymlink(folder, name, target) ==
    [folder EXCEPT ![name] = Symlink(target)]

\* folder.SetPriority: `pathman priority <name> --priority=front|back`.  The
\* symlink is read in the other folder, made in the wanted folder (which is
\* created when missing) and then removed where it was.
SetPriority(name, toFront) ==
    LET from == IF toFront THEN back ELSE front
        to == IF toFront THEN front ELSE back
        fromPath == IF toFront THEN GetBackFolder ELSE GetFrontFolder
        toPath == IF toFront THEN GetFrontFolder ELSE GetBackFolder
        target == Lookup(from, name).target
        made == OsSymlink(to, name, target)
        left == OsRemove(from, name)
        failed(err) ==
            /\ out' = Result("priority", <<>>, <<>>, err, name)
            /\ UNCHANGED <<front, back, dirState>>
    IN  /\ name \in Names
        /\ IF ~Exists(fromPath)
           THEN failed("folder does not exist")
           ELSE IF ~LstatOK(from, name)
           THEN failed("symlink not found")
           ELSE IF Lookup(from, name).kind # "symlink"
           THEN failed("is not a symlink")
           ELSE IF toPath \in DOMAIN dirState /\ dirState[toPath] = "file"
           THEN failed("failed to create folder")
           ELSE IF LstatOK(to, name)
           THEN /\ out' = Result("priority", <<>>, <<>>, "already exists", name)
                /\ UNCHANGED <<front, back>>
                /\ dirState' = MkdirAll(toPath)
           ELSE /\ out' = [Result("priority", <<>>, <<>>, "", name)
                             EXCEPT !.note = "Moved"]
                /\ front' = IF toFront THEN made ELSE left
                /\ back' = IF toFront THEN left ELSE made
                /\ dirState' = MkdirAll(toPath)
        /\ UNCHANGED <<pathEnv, cfg, files, configFile, items, model, running,
                       profile>>

\* ------------------------------------------------------------------ cleanup
\* A CleanupItem; every item is selected when it is made.  Detail is the
\* part of Reason that follows the colon.
CleanupItem(type, name, path, priority, reason, detail) ==
    [Type |-> type, Name |-> name, Path |-> path, Priority |-> priority,
     Reason |-> reason, Detail |-> detail, Selected |-> TRUE]

\* Mutant: any failure of os.Stat(target) makes the symlink a candidate.
targetIsNotExist_anyError(target) == StatPath(target) \in {"missing", "denied"}

\* os.Stat(target) fails with an error that os.IsNotExist accepts.
targetIsNotExist(target) == StatPath(target) = "missing"

\* folder.findBrokenSymlinksInFolder: one item for each symlink of the
\* folder whose target does not exist, in os.ReadDir order.
RECURSIVE findBrokenSymlinksInFolder(_, _, _, _)
findBrokenSymlinksInFolder(folder, folderPath, priority, order) ==
    IF Len(order) = 0 THEN <<>>
    ELSE LET entry == folder[order[1]]
             rest == findBrokenSymlinksInFolder(folder, folderPath, priority,
                                                Tail(order))
         IN  IF entry.kind = "symlink" /\ targetIsNotExist(entry.target)
             THEN <<CleanupItem("symlink", order[1],
                                FilepathJoin(folderPath, order[1]), priority,
                                "Target does not exist", entry.target)>>
                  \o rest
             ELSE rest

\* "Check managed directories.": an item for a path that does not exist,
\* an item for a path os.Stat cannot examine, nothing otherwise.
RECURSIVE directoryItems(_)
directoryItems(c) ==
    IF Len(c) = 0 THEN <<>>
    ELSE LET found == StatPath(c[1].Path)
             rest == directoryItems(Tail(c))
         IN  IF found = "missing"
             THEN <<CleanupItem("directory", FilepathBase(c[1].Path),
                                c[1].Path, c[1].Priority,
                                "Directory does not exist", <<>>)>> \o rest
             ELSE IF found = "denied"
             THEN <<CleanupItem("directory", FilepathBase(c[1].Path),
                                c[1].Path, c[1].Priority,
                                "Cannot access", <<>>)>> \o rest
             ELSE rest

\* folder.FindCleanupItems.
FindCleanupItems ==
    (IF Exists(GetFrontFolder)
     THEN findBrokenSymlinksInFolder(front, GetFrontFolder, "front",
                                     ReadDirOrder)
     ELSE <<>>)
    \o (IF Exists(GetBackFolder)
        THEN findBrokenSymlinksInFolder(back, GetBackFolder, "back",
                                        ReadDirOrder)
        ELSE <<>>)
    \o directoryItems(ConfigLoad(configFile).dirs)

\* The state PerformCleanup works on: the two folders, the loaded
\* configuration, configModified and the error it returns.
CleanupState(f, b, c, modified, err) ==
    [front |-> f, back |-> b, cfg |-> c, modified |-> modified, err |-> err]

\* The loop of folder.PerformCleanup from item i on.  os.Remove of a
\* symlink that is no longer there fails, and the function returns.
RECURSIVE performFrom(_, _, _)
performFrom(its, i, st) ==
    IF i > Len(its) THEN st
    ELSE IF ~its[i].Selected THEN performFrom(its, i + 1, st)
    ELSE IF its[i].Type = "symlink"
    THEN LET atFront == its[i].Path = FilepathJoin(GetFrontFolder, its[i].Name)
             folder == IF atFront THEN st.front ELSE st.back
         IN  IF ~LstatOK(folder, its[i].Name)
             THEN [st EXCEPT !.err = "failed to remove symlink"]
             ELSE performFrom(its, i + 1,
                      IF atFront
                      THEN [st EXCEPT !.front = OsRemove(folder, its[i].Name)]
                      ELSE [st EXCEPT !.back = OsRemove(folder, its[i].Name)])
    ELSE LET k == IndexOfDir(st.cfg, its[i].Path)
         IN  performFrom(its, i + 1,
                 IF k = 0 THEN st
                 ELSE [st EXCEPT !.cfg = removeDirectoryAt(st.cfg, k),
                                 !.modified = TRUE])

\* folder.PerformCleanup(items): the state it leaves.
PerformCleanup(its) ==
    performFrom(its, 1,
                CleanupState(front, back, ConfigLoad(configFile).dirs, FALSE,
                             ""))

\* `pathman clean` starts: runClean scans and hands the items to the UI.
CleanScan ==
    /\ items' = FindCleanupItems
    /\ out' = Result("clean scan", <<>>, <<>>, "", <<>>)
    /\ UNCHANGED <<pathEnv, cfg, front, back, files, dirState, configFile,
                   model, running, profile>>

\* The space key of the selection screen on item i (cleanModel.Update).
CleanToggle(i) ==
    /\ i \in DOMAIN items
    /\ items' = [items EXCEPT ![i].Selected = ~@]
    /\ UNCHANGED <<pathEnv, cfg, front, back, files, out, dirState, configFile,
                   model, running, profile>>

\* Enter and then y (cleanModel.Update): PerformCleanup(m.items); the
\* configuration is saved when the loop ends and has changed it.
CleanConfirm ==
    LET done == PerformCleanup(items)
        saved == done.err = "" /\ done.modified
    IN  /\ Len(items) > 0
        /\ front' = done.front
        /\ back' = done.back
        /\ cfg' = IF saved THEN done.cfg ELSE cfg
        /\ configFile' = IF saved THEN ConfigSave(done.cfg) ELSE configFile
        /\ out' = Result("clean", <<>>, <<>>, done.err, <<>>)
        /\ items' = <<>>
        /\ UNCHANGED <<pathEnv, files, dirState, model, running, profile>>

\* ------------------------------------------------------------ bash profile
\* The profile is the one file that GetBashProfilePath returns; its text is
\* a sequence of characters.
Newline == "\n"
ProfileFile(data) == [exists |-> TRUE, readable |-> TRUE, data |-> data]

\* GetShellIntegrationScript: the lines of the snippet, one character per
\* element.
GetShellIntegrationScript ==
    <<
      \* if command -v pathman >/dev/null 2>&1; then
      <<"i", "f", " ", "c", "o", "m", "m", "a", "n", "d", " ", "-", "v", " ",
        "p", "a", "t", "h", "m", "a", "n", " ", ">", "/", "d", "e", "v", "/",
        "n", "u", "l", "l", " ", "2", ">", "&", "1", ";", " ", "t", "h", "e",
        "n">>,
      \*   PATHMAN_CMD=pathman
      <<" ", " ", "P", "A", "T", "H", "M", "A", "N", "_", "C", "M", "D", "=",
        "p", "a", "t", "h", "m", "a", "n">>,
      \* elif [ -x "$HOME/.local/pathman/bin/pathman" ]; then
      <<"e", "l", "i", "f", " ", "[", " ", "-", "x", " ", Quote, "$", "H",
        "O", "M", "E", "/", ".", "l", "o", "c", "a", "l", "/", "p", "a", "t",
        "h", "m", "a", "n", "/", "b", "i", "n", "/", "p", "a", "t", "h", "m",
        "a", "n", Quote, " ", "]", ";", " ", "t", "h", "e", "n">>,
      \*   PATHMAN_CMD="$HOME/.local/pathman/bin/pathman"
      <<" ", " ", "P", "A", "T", "H", "M", "A", "N", "_", "C", "M", "D", "=",
        Quote, "$", "H", "O", "M", "E", "/", ".", "l", "o", "c", "a", "l",
        "/", "p", "a", "t", "h", "m", "a", "n", "/", "b", "i", "n", "/", "p",
        "a", "t", "h", "m", "a", "n", Quote>>,
      \* fi
      <<"f", "i">>,
      \* (an empty line)
      <<>>,
      \* if [ -n "$PATHMAN_CMD" ]; then
      <<"i", "f", " ", "[", " ", "-", "n", " ", Quote, "$", "P", "A", "T",
        "H", "M", "A", "N", "_", "C", "M", "D", Quote, " ", "]", ";", " ",
        "t", "h", "e", "n">>,
      \*   # Calculate a new $PATH from the old one and pathman's configuration.
      <<" ", " ", "#", " ", "C", "a", "l", "c", "u", "l", "a", "t", "e", " ",
        "a", " ", "n", "e", "w", " ", "$", "P", "A", "T", "H", " ", "f", "r",
        "o", "m", " ", "t", "h", "e", " ", "o", "l", "d", " ", "o", "n", "e",
        " ", "a", "n", "d", " ", "p", "a", "t", "h", "m", "a", "n", "'", "s",
        " ", "c", "o", "n", "f", "i", "g", "u", "r", "a", "t", "i", "o", "n",
        ".">>,
      \*   NEW_PATH=$("$PATHMAN_CMD" path 2>/dev/null)
      <<" ", " ", "N", "E", "W", "_", "P", "A", "T", "H", "=", "$", "(",
        Quote, "$", "P", "A", "T", "H", "M", "A", "N", "_", "C", "M", "D",
        Quote, " ", "p", "a", "t", "h", " ", "2", ">", "/", "d", "e", "v",
        "/", "n", "u", "l", "l", ")">>,
      \*   if [ $? -eq 0 ] && [ -n "$NEW_PATH" ]; then
      <<" ", " ", "i", "f", " ", "[", " ", "$", "?", " ", "-", "e", "q", " ",
        "0", " ", "]", " ", "&", "&", " ", "[", " ", "-", "n", " ", Quote,
        "$", "N", "E", "W", "_", "P", "A", "T", "H", Quote, " ", "]", ";",
        " ", "t", "h", "e", "n">>,
      \*     export PATH="$NEW_PATH"
      <<" ", " ", " ", " ", "e", "x", "p", "o", "r", "t", " ", "P", "A", "T",
        "H", "=", Quote, "$", "N", "E", "W", "_", "P", "A", "T", "H", Quote>>,
      \*   elif [ -n "$PS1" ]; then
      <<" ", " ", "e", "l", "i", "f", " ", "[", " ", "-", "n", " ", Quote,
        "$", "P", "S", "1", Quote, " ", "]", ";", " ", "t", "h", "e", "n">>,
      \*     # PS1 is only set in interactive shells - safe to show errors here.
      <<" ", " ", " ", " ", "#", " ", "P", "S", "1", " ", "i", "s", " ", "o",
        "n", "l", "y", " ", "s", "e", "t", " ", "i", "n", " ", "i", "n", "t",
        "e", "r", "a", "c", "t", "i", "v", "e", " ", "s", "h", "e", "l", "l",
        "s", " ", "-", " ", "s", "a", "f", "e", " ", "t", "o", " ", "s", "h",
        "o", "w", " ", "e", "r", "r", "o", "r", "s", " ", "h", "e", "r", "e",
        ".">>,
      \*     echo "Warning: pathman failed to update PATH" >&2
      <<" ", " ", " ", " ", "e", "c", "h", "o", " ", Quote, "W", "a", "r",
        "n", "i", "n", "g", ":", " ", "p", "a", "t", "h", "m", "a", "n", " ",
        "f", "a", "i", "l", "e", "d", " ", "t", "o", " ", "u", "p", "d", "a",
        "t", "e", " ", "P", "A", "T", "H", Quote, " ", ">", "&", "2">>,
      \*   fi
      <<" ", " ", "f", "i">>,
      \* elif [ -n "$PS1" ]; then
      <<"e", "l", "i", "f", " ", "[", " ", "-", "n", " ", Quote, "$", "P",
        "S", "1", Quote, " ", "]", ";", " ", "t", "h", "e", "n">>,
      \*   # PS1 is only set in interactive shells - safe to show errors here.
      <<" ", " ", "#", " ", "P", "S", "1", " ", "i", "s", " ", "o", "n", "l",
        "y", " ", "s", "e", "t", " ", "i", "n", " ", "i", "n", "t", "e", "r",
        "a", "c", "t", "i", "v", "e", " ", "s", "h", "e", "l", "l", "s", " ",
        "-", " ", "s", "a", "f", "e", " ", "t", "o", " ", "s", "h", "o", "w",
        " ", "e", "r", "r", "o", "r", "s", " ", "h", "e", "r", "e", ".">>,
      \*   echo "Warning: pathman not found, PATH not updated" >&2
      <<" ", " ", "e", "c", "h", "o", " ", Quote, "W", "a", "r", "n", "i",
        "n", "g", ":", " ", "p", "a", "t", "h", "m", "a", "n", " ", "n", "o",
        "t", " ", "f", "o", "u", "n", "d", ",", " ", "P", "A", "T", "H", " ",
        "n", "o", "t", " ", "u", "p", "d", "a", "t", "e", "d", Quote, " ",
        ">", "&", "2">>,
      \* fi
      <<"f", "i">>
    >>

\* The comment line that AddToProfile writes before the snippet.
AddedByPrefix ==
    <<"#", " ", "A", "d", "d", "e", "d", " ", "b", "y", " ", "'", "p", "a",
      "t", "h", "m", "a", "n", " ", "i", "n", "i", "t", "'", " ", "o", "n",
      " ">>

\* time.Now().Format("2006-01-02 15:04:05") at four moments.
Timestamps ==
    {<<"2", "0", "2", "6", "-", "0", "1", "-", "0", "1", " ", "0", "9", ":",
       "0", "0", ":", "0", "0">>,
     <<"2", "0", "2", "6", "-", "0", "1", "-", "0", "1", " ", "0", "9", ":",
       "0", "0", ":", "0", "1">>,
     <<"2", "0", "2", "6", "-", "0", "1", "-", "0", "2", " ", "1", "0", ":",
       "3", "0", ":", "0", "0">>,
     <<"2", "0", "2", "6", "-", "0", "1", "-", "0", "2", " ", "1", "0", ":",
       "3", "0", ":", "5", "9">>}

\* strings.Contains(s, substr).
StringsContains(s, substr) ==
    \E i \in 1..(Len(s) - Len(substr) + 1) :
        SubSeq(s, i, i + Len(substr) - 1) = substr

\* Where the lines of a text end: at each newline, and after the last
\* character when that is not a newline (the tokens of bufio.Scanner).
LineEnds(data) ==
    {i \in DOMAIN data : data[i] = Newline}
        \cup (IF data # <<>> /\ data[Len(data)] # Newline
              THEN {Len(data) + 1} ELSE {})

\* The line of data that ends at position e.
LineEndingAt(data, e) ==
    LET before == {j \in LineEnds(data) : j < e}
        start == IF before = {} THEN 1
                 ELSE 1 + CHOOSE j \in before : \A k \in before : k <= j
    IN  SubSeq(data, start, e - 1)

\* The test that profileHasPathmanExport applies to a line.
IsPathmanExport(line) ==
    /\ StringsContains(line, <<"e", "x", "p", "o", "r", "t">>)
    /\ StringsContains(line, <<"P", "A", "T", "H">>)
    /\ StringsContains(line, <<"p", "a", "t", "h", "m", "a", "n", " ",
                               "p", "a", "t", "h">>)

\* profileHasPathmanExport: a missing profile has no export, a profile that
\* cannot be opened is an error.
profileHasPathmanExport(file) ==
    IF ~file.exists THEN [found |-> FALSE, err |-> ""]
    ELSE IF ~file.readable
    THEN [found |-> FALSE, err |-> "permission denied"]
    ELSE [found |-> \E e \in LineEnds(file.data) :
                        IsPathmanExport(LineEndingAt(file.data, e)),
          err |-> ""]

\* Every line followed by a newline, as AddToProfile writes the script.
RECURSIVE WriteLines(_)
WriteLines(lines) ==
    IF lines = <<>> THEN <<>>
    ELSE Head(lines) \o <<Newline>> \o WriteLines(Tail(lines))

\* folder.AddToProfile at time timestamp: the profile it leaves, its error
\* and what it prints.
addToProfile(file, timestamp) ==
    LET has == profileHasPathmanExport(file)
        old == file.data
        gap == IF Len(old) > 0 /\ old[Len(old)] # Newline
               THEN <<Newline>> ELSE <<>>
        exportLine ==
            <<Newline>> \o AddedByPrefix \o timestamp \o <<Newline>>
                \o WriteLines(GetShellIntegrationScript)
    IN  IF has.err # "" THEN [file |-> file, err |-> has.err, note |-> ""]
        ELSE IF has.found
        THEN [file |-> file, err |-> "",
              note |-> "PATH export already exists"]
        ELSE [file |-> ProfileFile(old \o gap \o exportLine), err |-> "",
              note |-> "Added PATH export"]

\* The number of lines of the profile that are the export line of the
\* script.
SnippetCopies(file) ==
    Cardinality({e \in LineEnds(file.data) :
                    LineEndingAt(file.data, e) = GetShellIntegrationScript[11]})

\* One call of folder.AddToProfile.
AddToProfile(timestamp) ==
    LET added == addToProfile(profile, timestamp)
    IN  /\ SnippetCopies(profile) < MaxCopies
        /\ profile' = added.file
        /\ out' = [Result("profile", <<>>, <<>>, added.err, <<>>)
                     EXCEPT !.note = added.note]
        /\ UNCHANGED <<pathEnv, cfg, front, back, files, dirState, configFile,
                       items, model, running>>

\* ---------------------------------------------------------------- clean UI
\* The keys that bubbletea reports; "x" stands for every key that
\* cleanModel.Update does not name.
Keys ==
    {"y", "Y", "n", "N", "q", "ctrl+c", "esc", "up", "k", "down", "j", " ",
     "a", "A", "d", "D", "enter", "x"}

\* initialModel: the cleanModel of a new `pathman clean`, whose items are the
\* variable items.  The cursor counts from 0, as in the code.
initialModel ==
    [stage |-> "clean", cursor |-> 0, done |-> FALSE, confirm |-> FALSE,
     err |-> ""]

\* The clean UI is running and has not quit.
CleanRunning == model.stage = "clean" /\ ~model.done

\* runClean: `pathman clean` scans and starts the UI on what it found.
runClean ==
    /\ ~CleanRunning
    /\ model.stage \in {"none", "clean"}
    /\ items' = FindCleanupItems
    /\ model' = initialModel
    /\ out' = Result("clean scan", <<>>, <<>>, "", <<>>)
    /\ UNCHANGED <<pathEnv, cfg, front, back, files, dirState, configFile,
                   running, profile>>

\* Mutant: Enter on the selection screen runs the cleanup.
Performs_onEnter(m, key) == ~m.confirm /\ key = "enter"

\* The key on which cleanModel.Update calls folder.PerformCleanup.
Performs(m, key) == m.confirm /\ key \in {"y", "Y"}

\* The keys on which cleanModel.Update quits without a cleanup.
Cancels(m, key) ==
    IF m.confirm THEN key \in {"n", "N", "q", "ctrl+c", "esc"}
    ELSE key \in {"ctrl+c", "q"}

\* cleanModel.Update for a tea.KeyMsg.  After tea.Quit no key is handled.
cleanUpdate(key) ==
    LET cleaned == PerformCleanup(items)
        saved == cleaned.err = "" /\ cleaned.modified
        shown(m) ==
            /\ model' = m
            /\ UNCHANGED <<cfg, front, back, out, configFile, items>>
    IN  /\ CleanRunning
        /\ key \in Keys
        /\ IF Performs(model, key)
           THEN /\ front' = cleaned.front
                /\ back' = cleaned.back
                /\ cfg' = IF saved THEN cleaned.cfg ELSE cfg
                /\ configFile' = IF saved THEN ConfigSave(cleaned.cfg)
                                 ELSE configFile
                /\ out' = Result("clean", <<>>, <<>>, cleaned.err, <<>>)
                /\ model' = [model EXCEPT !.done = TRUE, !.err = cleaned.err]
                /\ items' = items
           ELSE IF Cancels(model, key)
           THEN shown([model EXCEPT !.done = TRUE])
           ELSE IF model.confirm
           THEN shown(model)
           ELSE IF key \in {"up", "k"}
           THEN shown([model EXCEPT
                          !.cursor = IF @ > 0 THEN @ - 1 ELSE @])
           ELSE IF key \in {"down", "j"}
           THEN shown([model EXCEPT
                          !.cursor = IF @ < Len(items) - 1 THEN @ + 1 ELSE @])
           ELSE IF key = " "
           THEN /\ items' = IF Len(items) > 0
                            THEN [items EXCEPT
                                     ![model.cursor + 1].Selected = ~@]
                            ELSE items
                /\ UNCHANGED <<cfg, front, back, out, configFile, model>>
           ELSE IF key \in {"a", "A", "d", "D"}
           THEN /\ items' = [i \in DOMAIN items |->
                               [items[i] EXCEPT
                                   !.Selected = key \in {"a", "A"}]]
                /\ UNCHANGED <<cfg, front, back, out, configFile, model>>
           ELSE IF key = "enter"
           THEN shown([model EXCEPT !.confirm = TRUE])
           ELSE shown(model)
        /\ UNCHANGED <<pathEnv, files, dirState, running, profile>>

\* The number of selected items (selectedCount in View and confirmView).
SelectedCount(its) == Cardinality({i \in DOMAIN its : its[i].Selected})

\* cleanModel.confirmView, by its last line.
confirmView ==
    IF SelectedCount(items) = 0 THEN "Press any key to return."
    ELSE "Are you sure you want to proceed? (y/n): "

\* cleanModel.selectionView, by its last line.
selectionView ==
    IF Len(items) = 0 THEN "Press q to quit." ELSE "  q: Quit"

\* cleanModel.View, by the last line of what it shows.
View ==
    IF model.done
    THEN IF model.err # "" THEN "Error during cleanup"
         ELSE IF SelectedCount(items) = 0
         THEN "No items selected. Nothing to clean up."
         ELSE "Successfully cleaned up"
    ELSE IF model.confirm THEN confirmView
    ELSE selectionView

\* ----------------------------------------------------------------- init UI
\* The pathman binary, and $HOME/.local/pathman/bin under a short name.
Pathman == <<"p", "a", "t", "h", "m", "a", "n">>
StandardDir == <<"/", "l">>
GetStandardPathmanLocation == FilepathJoin(StandardDir, Pathman)

\* A tea.Cmd that has been started, and the tea.Msg it has produced and that
\* waits to be handed to Update.
Cmd(name) == [kind |-> "cmd", name |-> name]
Msg(name, err) == [kind |-> "msg", name |-> name, err |-> err]

\* initialInitModel.  choices names the list of choices on show: the two of
\* the profile prompt or the two of the self-install prompt; the first
\* choice (cursor 0) is the one that says yes.
initialInitModel ==
    [stage |-> "setup", message |-> <<>>, cursor |-> 0, choices |-> "profile",
     selected |-> -1, err |-> "", shouldAddToProfile |-> FALSE,
     needsSelfInstall |-> FALSE]

InitStages == {"setup", "prompt", "selfInstallPrompt", "processing", "done"}

\* runInit: `pathman init` starts the UI, whose Init() starts performSetup.
runInit ==
    /\ model.stage = "none"
    /\ model' = initialInitModel
    /\ running' = Cmd("performSetup")
    /\ out' = Result("init", <<>>, <<>>, "", <<>>)
    /\ UNCHANGED <<pathEnv, cfg, front, back, files, dirState, configFile,
                   items, profile>>

\* folder.IsOnPath(folderPath).
IsOnPath(folderPath) ==
    /\ pathEnv # <<>>
    /\ \E i \in DOMAIN StringsSplit(pathEnv) :
          FilepathClean(StringsSplit(pathEnv)[i]) = FilepathClean(folderPath)

\* performSetup: the subfolders are made when they are missing, and the
\* message tells what is left to do.  isBash is whether $SHELL names bash,
\* inStandard whether the running binary is the one of the standard
\* location.
performSetup(isBash, inStandard) ==
    LET blocked(folderPath) == dirState[folderPath] \in {"file", "denied"}
        made == [d \in DOMAIN dirState |->
                    IF d \in {GetFrontFolder, GetBackFolder}
                       /\ dirState[d] = "missing"
                    THEN "dir" ELSE dirState[d]]
        offPath == ~IsOnPath(GetFrontFolder) \/ ~IsOnPath(GetBackFolder)
        complete(needsPathSetup, isBashor, needsSelfInstall) ==
            [kind |-> "msg", name |-> "setupCompleteMsg", err |-> "",
             needsPathSetup |-> needsPathSetup, isBashor |-> isBashor,
             needsSelfInstall |-> needsSelfInstall]
    IN  /\ running = Cmd("performSetup")
        /\ IF blocked(GetFrontFolder)
           THEN /\ running' = Msg("setupCompleteMsg",
                                  "failed to create front subfolder")
                /\ UNCHANGED dirState
           ELSE IF blocked(GetBackFolder)
           THEN /\ running' = Msg("setupCompleteMsg",
                                  "failed to create back subfolder")
                /\ dirState' = [dirState EXCEPT
                                   ![GetFrontFolder] = made[GetFrontFolder]]
           ELSE /\ dirState' = made
                /\ running' = IF offPath /\ isBash
                              THEN complete(TRUE, TRUE, ~inStandard)
                              ELSE IF offPath
                              THEN complete(FALSE, FALSE, FALSE)
                              ELSE complete(FALSE, FALSE, ~inStandard)
        /\ UNCHANGED <<pathEnv, cfg, front, back, files, out, configFile,
                       items, model, profile>>

\* updateProfile: the command that runs folder.AddToProfile.
updateProfile(timestamp) ==
    LET added == addToProfile(profile, timestamp)
    IN  /\ running = Cmd("updateProfile")
        /\ profile' = added.file
        /\ running' = Msg("profileUpdateMsg", added.err)
        /\ out' = [Result("profile", <<>>, <<>>, added.err, <<>>)
                     EXCEPT !.note = added.note]
        /\ UNCHANGED <<pathEnv, cfg, front, back, files, dirState, configFile,
                       items, model>>

\* performSelfInstall, i.e. folder.SelfInstall: the binary at the standard
\* location is removed and copied anew, and the front folder gets the
\* symlink pathman unless it holds that name.  copied is whether copyFile
\* succeeds.
performSelfInstall(copied) ==
    LET standard == <<StandardDir, Pathman>>
    IN  /\ running = Cmd("performSelfInstall")
        /\ files' = [files EXCEPT
                        ![standard] = IF copied THEN "exec" ELSE "none"]
        /\ front' = IF copied /\ ~LstatOK(front, Pathman)
                    THEN OsSymlink(front, Pathman, GetStandardPathmanLocation)
                    ELSE front
        /\ running' = Msg("selfInstallCompleteMsg",
                          IF copied THEN "" ELSE "failed to copy binary")
        /\ UNCHANGED <<pathEnv, cfg, back, out, dirState, configFile, items,
                       model, profile>>

\* The model once the self-install prompt is on show.
SelfInstallPrompt(m) ==
    [m EXCEPT !.stage = "selfInstallPrompt", !.cursor = 0,
              !.choices = "selfInstall"]

\* initModel.Update for the message of a command; tea.Quit goes with every
\* step to the stage done.
initUpdateMsg ==
    LET msg == running
        said(m, line) == [m EXCEPT !.message = Append(@, line)]
    IN  /\ running.kind = "msg"
        /\ model.stage \in InitStages
        /\ running' = NoCmd
        /\ model' =
              IF msg.name = "setupCompleteMsg"
              THEN IF msg.err # ""
                   THEN [model EXCEPT !.err = msg.err, !.stage = "done"]
                   ELSE LET m == [model EXCEPT
                                     !.needsSelfInstall = msg.needsSelfInstall]
                        IN  IF msg.needsPathSetup /\ msg.isBashor
                            THEN [m EXCEPT !.stage = "prompt"]
                            ELSE IF msg.needsSelfInstall
                            THEN SelfInstallPrompt(m)
                            ELSE [m EXCEPT !.stage = "done"]
              ELSE IF msg.name = "profileUpdateMsg"
              THEN IF msg.err # ""
                   THEN [model EXCEPT !.err = msg.err, !.stage = "done"]
                   ELSE LET m == said(model, "Successfully added pathman configuration to your profile.")
                        IN  IF m.needsSelfInstall THEN SelfInstallPrompt(m)
                            ELSE [m EXCEPT !.stage = "done"]
              ELSE [said(model, IF msg.err # ""
                                THEN "Error installing pathman"
                                ELSE "Successfully installed pathman")
                       EXCEPT !.stage = "done"]
        /\ UNCHANGED <<pathEnv, cfg, front, back, files, out, dirState,
                       configFile, items, profile>>

\* The keys of the init UI; "x" stands for every key that initModel.Update
\* does not name.
InitKeys == {"ctrl+c", "q", "up", "k", "down", "j", "enter", " ", "x"}

\* Mutant: every choice of the profile prompt asks for the profile update.
ChoosesYes_always(cursor) == TRUE

\* The choice under the cursor is the first one, the one that says yes.
ChoosesYes(cursor) == cursor = 0

\* initModel.Update for a tea.KeyMsg.
initUpdateKey(key) ==
    LET moved == IF key \in {"up", "k"}
                 THEN [model EXCEPT !.cursor = IF @ > 0 THEN @ - 1 ELSE @]
                 ELSE [model EXCEPT !.cursor = IF @ < 1 THEN @ + 1 ELSE @]
        chosen == [model EXCEPT !.selected = model.cursor,
                                !.stage = "processing"]
        manual == [chosen EXCEPT
                      !.message = Append(@, "To add it manually, add these lines")]
        kept == [chosen EXCEPT
                    !.message = Append(@, "Keeping pathman at current location."),
                    !.stage = "done"]
        shown(m, started) ==
            /\ model' = m
            /\ running' = started
    IN  /\ model.stage \in InitStages
        /\ key \in InitKeys
        /\ IF model.stage \notin {"prompt", "selfInstallPrompt"}
           THEN shown(model, running)
           ELSE IF key \in {"ctrl+c", "q"}
           THEN shown([model EXCEPT !.stage = "done"], running)
           ELSE IF key \in {"up", "k", "down", "j"}
           THEN shown(moved, running)
           ELSE IF key \notin {"enter", " "}
           THEN shown(model, running)
           ELSE IF model.stage = "prompt"
           THEN IF ChoosesYes(model.cursor)
                THEN shown([chosen EXCEPT !.shouldAddToProfile = TRUE],
                           Cmd("updateProfile"))
                ELSE IF model.needsSelfInstall
                THEN shown(SelfInstallPrompt(manual), running)
                ELSE shown([manual EXCEPT !.stage = "done"], running)
           ELSE IF model.cursor = 0
           THEN shown(chosen, Cmd("performSelfInstall"))
           ELSE shown(kept, running)
        /\ UNCHANGED <<pathEnv, cfg, front, back, files, out, dirState,
                       configFile, items, profile>>

\* `pathman path`: prints folder.GetAdjustedPath().
PathCmd ==
    /\ out' = Result("path", GetAdjustedPath(pathEnv, cfg), <<>>, "", <<>>)
    /\ UNCHANGED <<pathEnv, cfg, front, back, files, dirState, configFile,
                   items, model, running, profile>>

\* The shell integration script (GetShellIntegrationScript):
\* NEW_PATH=$(pathman path) and, when it is not empty,
\* export PATH="$NEW_PATH".
ExportPath ==
    /\ out.cmd = "path"
    /\ out.text # <<>>
    /\ pathEnv' = out.text
    /\ out' = NoResult
    /\ UNCHANGED <<cfg, front, back, files, dirState, configFile, items, model,
                   running, profile>>

\* `pathman summary`: folder.PrintSummary prints the name clashes of
\* folder.CheckNameClashes() and the PATH clashes of
\* folder.CheckPathClashesWithDirs().
SummaryCmd ==
    /\ out' = [Result("summary", <<>>, CheckPathClashesWithDirs, "", <<>>)
                  EXCEPT !.names = CheckNameClashes]
    /\ UNCHANGED <<pathEnv, cfg, front, back, files, dirState, configFile,
                   items, model, running, profile>>

\* ----------------------------------------------------------- specifications
\* All sequences over S of length at most n.
SeqsUpTo(S, n) == UNION {[1..k -> S] : k \in 0..n}

EmptyFolder == [n \in Names |-> NoEntry]
NoFiles == [f \in OtherDirs \X Names |-> "none"]

\* The path composer: any PATH made of at most MaxPathLen entries, among
\* them the empty entry, both subfolders, a directory that is unmanaged
\* until it is added, and the same directory spelt with a trailing slash
\* (never managed).
\* The directories handed to `pathman add`; the front folder is one.
ComposeDirs == {DirA, DirB, GetFrontFolder}

InitCompose ==
    /\ pathEnv \in
          {StringsJoin(s) :
              s \in SeqsUpTo({<<>>, GetFrontFolder, GetBackFolder, DirA,
                              DirASlash}, MaxPathLen)}
    /\ cfg = <<>>
    /\ front = EmptyFolder
    /\ back = EmptyFolder
    /\ files = NoFiles
    /\ out = NoResult
    /\ dirState = AllDirectories
    /\ configFile = NoConfigFile
    /\ items = <<>>
    /\ model = NoModel
    /\ running = NoCmd
    /\ profile = NoProfile

NextCompose ==
    \/ \E d \in ComposeDirs, atFront \in BOOLEAN : AddDir(d, atFront)
    \/ PathCmd
    \/ ExportPath

SpecCompose == InitCompose /\ [][NextCompose]_vars

\* The clash checks: any PATH of at most MaxPathLen different entries among
\* both subfolders and two other directories, any symlinks in the two
\* folders, any files in the other directories (only those of DirA, the
\* directory that can be managed, may lack the executable bit).
InitClash ==
    /\ pathEnv \in
          {StringsJoin(s) :
              s \in {t \in SeqsUpTo({GetFrontFolder, GetBackFolder, DirA,
                                      DirU}, MaxPathLen) :
                        \A i, j \in DOMAIN t : t[i] = t[j] => i = j}}
    /\ cfg = <<>>
    /\ front \in [Names -> {NoEntry, Symlink(ToolPath)}]
    /\ back \in [Names -> {NoEntry, Symlink(ToolPath)}]
    /\ files \in {f \in [OtherDirs \X Names -> FileKinds] :
                       \A n \in Names : f[<<DirU, n>>] # "plain"}
    /\ out = NoResult
    /\ dirState = AllDirectories
    /\ configFile = NoConfigFile
    /\ items = <<>>
    /\ model = NoModel
    /\ running = NoCmd
    /\ profile = NoProfile

NextClash ==
    \/ \E atFront \in BOOLEAN : AddDir(DirA, atFront)
    \/ \E name \in Names \cup {<<>>}, atFront \in BOOLEAN, force \in BOOLEAN :
           AddFile(ToolPath, name, atFront, force)
    \/ SummaryCmd

SpecClash == InitClash /\ [][NextClash]_vars

\* The symlink commands: foo is nothing, a regular file or a symlink to one
\* of the two files named foo in each folder, bar is nothing or a symlink;
\* PATH either leaves the managed folders out or puts DirU between them;
\* DirU may hold a file foo; DirA is managed or not.  The files the
\* symlinks point to exist.
LinkEntries == {NoEntry, RegularFile, Symlink(ToolPath), Symlink(ToolPath2)}
LinkFolders ==
    {f \in [Names -> LinkEntries] : f[Bar] \in {NoEntry, Symlink(ToolPath)}}
LinkPaths == {DirU, StringsJoin(<<GetFrontFolder, DirU, GetBackFolder>>)}
\* The files `pathman add` is given: foo of the working directory, as a
\* relative path, and the other foo.
AddedFiles == {Foo, ToolPath2}
\* What `pathman remove` is given.
RemoveNames == {Foo, Bar, DirA}

InitLinks ==
    /\ pathEnv \in LinkPaths
    /\ cfg \in {<<>>, <<ManagedDirectory(DirA, "front")>>}
    /\ front \in LinkFolders
    /\ back \in LinkFolders
    /\ files \in {f \in [({DirU} \X Names)
                                \cup {<<DirO, Foo>>, <<DirP, Foo>>,
                                      <<DirO, Bar>>} -> {"none", "exec"}] :
                       /\ f[<<DirU, Bar>>] = "none"
                       /\ f[<<DirO, Foo>>] = "exec"
                       /\ f[<<DirP, Foo>>] = "exec"
                       /\ f[<<DirO, Bar>>] = "none"}
    /\ out = NoResult
    /\ dirState = AllDirectories
    /\ configFile = IF cfg = <<>> THEN NoConfigFile ELSE ConfigSave(cfg)
    /\ items = <<>>
    /\ model = NoModel
    /\ running = NoCmd
    /\ profile = NoProfile

NextLinks ==
    \/ \E p \in AddedFiles, name \in {<<>>, Bar}, atFront \in BOOLEAN,
          force \in BOOLEAN : Add(p, name, atFront, force)
    \/ Add(MissingPath, <<>>, FALSE, FALSE)
    \/ \E name \in RemoveNames : Remove(name)
    \/ \E oldName \in Names, newName \in Names : Rename(oldName, newName)
    \/ \E name \in Names, toFront \in BOOLEAN : SetPriority(name, toFront)
    \/ SummaryCmd

SpecLinks == InitLinks /\ [][NextLinks]_vars

\* The configuration: from no config.json, directories are added and
\* removed; DirASlash is DirA once filepath.Abs has cleaned it.
ConfigPaths == {DirA, DirASlash, DirB, GetFrontFolder, GetBackFolder}

InitConfig ==
    /\ pathEnv = <<>>
    /\ cfg = <<>>
    /\ front = EmptyFolder
    /\ back = EmptyFolder
    /\ files = NoFiles
    /\ out = NoResult
    /\ dirState = AllDirectories
    /\ configFile = NoConfigFile
    /\ items = <<>>
    /\ model = NoModel
    /\ running = NoCmd
    /\ profile = NoProfile

NextConfig ==
    \/ \E p \in ConfigPaths, atFront \in BOOLEAN : Add(p, <<>>, atFront, FALSE)
    \/ \E p \in ConfigPaths : Remove(p)

SpecConfig == InitConfig /\ [][NextConfig]_vars

\* The command line of `pathman add`: a file or a directory is added with
\* or without --priority, and names are removed.

InitAddCmd ==
    /\ InitLinks
    /\ pathEnv = DirU
    /\ cfg = <<>>

NextAddCmd ==
    \/ \E p \in AddedFiles \cup {DirB}, force \in BOOLEAN,
          given \in {<<>>, <<"front">>, <<"back">>, <<"">>, <<"high">>} :
             AddCmd(p, <<>>, given, force)
    \/ \E name \in {Foo, DirB} : Remove(name)

SpecAddCmd == InitAddCmd /\ [][NextAddCmd]_vars

\* The cleanup: foo in the front folder and bar in the back folder are
\* nothing, a regular file or a symlink to one of the two tool files; the
\* tool files exist or not, and the second may be out of reach; DirA and
\* DirB are managed or not and are whatever os.Stat can find.  While the
\* clean UI holds its items, `pathman remove` may run in another terminal.
InitClean ==
    /\ pathEnv = <<>>
    /\ cfg \in {<<>>, <<ManagedDirectory(DirA, "front"),
                          ManagedDirectory(DirB, "back")>>}
    /\ front \in {f \in [Names -> LinkEntries] : f[Bar] = NoEntry}
    /\ back \in {b \in [Names -> LinkEntries] : b[Foo] = NoEntry}
    /\ files \in {f \in [{<<DirO, Foo>>, <<DirP, Foo>>}
                              -> {"none", "exec", "denied"}] :
                       /\ f[<<DirO, Foo>>] # "denied"
                       /\ f[<<DirP, Foo>>] # "exec"}
    /\ out = NoResult
    /\ dirState \in {d \in [KnownDirs -> DirStates] :
                          /\ \A k \in KnownDirs \ {DirA, DirB} : d[k] = "dir"
                          /\ d[DirB] \in {"dir", "missing"}}
    /\ configFile = IF cfg = <<>> THEN NoConfigFile ELSE ConfigSave(cfg)
    /\ items = <<>>
    /\ model = NoModel
    /\ running = NoCmd
    /\ profile = NoProfile

NextClean ==
    \/ CleanScan
    \/ \E i \in DOMAIN items : CleanToggle(i)
    \/ CleanConfirm
    \/ \E name \in RemoveNames : Remove(name)

SpecClean == InitClean /\ [][NextClean]_vars

\* The profile: it is missing, empty, holds the line `alias ll=ls` with or
\* without its newline, holds the one-line export
\* `export PATH="$(pathman path)"` that a user may have written, or exists
\* and cannot be opened; AddToProfile runs at one moment after another.
ProfilePool ==
    {NoProfile, ProfileFile(<<>>),
     ProfileFile(<<"a", "l", "i", "a", "s", " ", "l", "l", "=", "l", "s">>),
     ProfileFile(<<"a", "l", "i", "a", "s", " ", "l", "l", "=", "l", "s",
                   Newline>>),
     ProfileFile(<<"e", "x", "p", "o", "r", "t", " ", "P", "A", "T", "H", "=",
                   Quote, "$", "(", "p", "a", "t", "h", "m", "a", "n", " ",
                   "p", "a", "t", "h", ")", Quote, Newline>>),
     [exists |-> TRUE, readable |-> FALSE, data |-> <<>>]}

InitProfile ==
    /\ pathEnv = <<>>
    /\ cfg = <<>>
    /\ front = EmptyFolder
    /\ back = EmptyFolder
    /\ files = NoFiles
    /\ out = NoResult
    /\ dirState = AllDirectories
    /\ configFile = NoConfigFile
    /\ items = <<>>
    /\ model = NoModel
    /\ running = NoCmd
    /\ profile \in ProfilePool

NextProfile == \E timestamp \in Timestamps : AddToProfile(timestamp)

SpecProfile == InitProfile /\ [][NextProfile]_vars

\* The clean UI: `pathman clean` starts over folders whose symlinks are all
\* broken, and keys are pressed until the UI quits.
InitCleanUI ==
    /\ InitClean
    /\ \A f \in DOMAIN files : files[f] = "none"
    /\ dirState[DirA] \in {"dir", "missing"}

NextCleanUI ==
    \/ runClean
    \/ \E key \in Keys : cleanUpdate(key)

SpecCleanUI == InitCleanUI /\ [][NextCleanUI]_vars

\* The init UI: `pathman init` runs once, with the subfolders on PATH or
\* not, there or missing, over a profile that is missing, holds a line, holds
\* a one-line export or cannot be read; the standard location holds a binary
\* or not and the front folder holds the symlink pathman or not.
InitInitUI ==
    /\ pathEnv \in LinkPaths \cup {<<>>}
    /\ cfg = <<>>
    /\ front \in [{Pathman} -> {NoEntry, Symlink(GetStandardPathmanLocation)}]
    /\ back = [n \in {Pathman} |-> NoEntry]
    /\ files \in [{<<StandardDir, Pathman>>} -> {"none", "exec"}]
    /\ front[Pathman] # NoEntry => files[<<StandardDir, Pathman>>] = "exec"
    /\ out = NoResult
    /\ dirState \in
          {d \in [KnownDirs -> DirStates] :
              /\ \A k \in KnownDirs \ {GetFrontFolder, GetBackFolder} :
                     d[k] = "dir"
              /\ d[GetFrontFolder] \in {"dir", "missing"}
              /\ d[GetBackFolder] \in {"dir", "missing", "file"}
              /\ d[GetFrontFolder] = "missing" => d[GetBackFolder] # "dir"}
    /\ dirState[GetFrontFolder] = "missing" => front[Pathman] = NoEntry
    /\ configFile = NoConfigFile
    /\ items = <<>>
    /\ model = NoModel
    /\ running = NoCmd
    /\ profile \in ProfilePool

NextInitUI ==
    \/ runInit
    \/ \E isBash \in BOOLEAN, inStandard \in BOOLEAN :
          performSetup(isBash, inStandard)
    \/ \E timestamp \in Timestamps : updateProfile(timestamp)
    \/ \E copied \in BOOLEAN : performSelfInstall(copied)
    \/ initUpdateMsg
    \/ \E key \in InitKeys : initUpdateKey(key)

SpecInitUI == InitInitUI /\ [][NextInitUI]_vars

\* The scheduling of bubbletea: the program is started, every command that
\* was started runs to its end and its message is handed to Update; and a
\* user who is asked answers: Enter is pressed at a prompt sooner or later.
SpecInitUIFair ==
    /\ SpecInitUI
    /\ WF_vars(runInit)
    /\ WF_vars(\E isBash \in BOOLEAN, inStandard \in BOOLEAN :
                  performSetup(isBash, inStandard))
    /\ WF_vars(\E timestamp \in Timestamps : updateProfile(timestamp))
    /\ WF_vars(\E copied \in BOOLEAN : performSelfInstall(copied))
    /\ WF_vars(initUpdateMsg)
    /\ WF_vars(initUpdateKey("enter"))

\* ------------------------------------------------- properties: path composer
\* The entries of the current PATH; the empty PATH has none.
CurrentEntries == IF pathEnv = <<>> THEN <<>> ELSE StringsSplit(pathEnv)

\* The front folder, the back folder and every managed directory path.
ManagedLocations ==
    {GetFrontFolder, GetBackFolder} \cup {cfg[i].Path : i \in DOMAIN cfg}

IsFrontDir(d) == d.Priority = "front"
IsBackDir(d) == d.Priority = "back"
IsForeign(e) == e \notin ManagedLocations

\* The paths of the managed directories of one priority, in configured order.
PathsOf(dirs) == [i \in 1..Len(dirs) |-> dirs[i].Path]
FrontPriorityDirs == PathsOf(SelectSeq(cfg, IsFrontDir))
BackPriorityDirs == PathsOf(SelectSeq(cfg, IsBackDir))

\* The entries of the current PATH that are no managed location, in order.
Residue == SelectSeq(CurrentEntries, IsForeign)

\* The elements of the PATH printed by `pathman path`.
Composed == StringsSplit(out.text)

\* What lies in the composed PATH between the front-priority and the
\* back-priority directories.
Middle ==
    SubSeq(Composed, 2 + Len(FrontPriorityDirs),
           Len(Composed) - 1 - Len(BackPriorityDirs))

\* C1: the composed PATH is the front folder, the front-priority managed
\* directories in configured order, the residue of the current PATH, the
\* back-priority managed directories in configured order and the back
\* folder; the front folder is its first and the back folder its last element.
C1_ComposedLayout ==
    out.cmd = "path" =>
        LET composed == Composed
        IN  /\ composed = <<GetFrontFolder>> \o FrontPriorityDirs \o Residue
                            \o BackPriorityDirs \o <<GetBackFolder>>
            /\ composed[1] = GetFrontFolder
            /\ composed[Len(composed)] = GetBackFolder

C1_Witness ==
    /\ out.cmd = "path"
    /\ Len(FrontPriorityDirs) = 1
    /\ Len(BackPriorityDirs) = 1
    /\ Len(Residue) >= 2
    /\ Residue[1] # Residue[2]

\* C2: composing the printed PATH again, with the same folders and managed
\* directories, gives the printed PATH.
C2_Idempotent ==
    out.cmd = "path" => GetAdjustedPath(out.text, cfg) = out.text

C2_Witness ==
    /\ out.cmd = "path"
    /\ out.text # pathEnv
    /\ Len(cfg) = 2
    /\ Residue # <<>>
    /\ \E i \in DOMAIN cfg : cfg[i].Path \in Range(CurrentEntries)

\* C3: the composed PATH holds the front folder once, the back folder once
\* and each managed directory once.
C3_ManagedOnce ==
    out.cmd = "path" =>
        /\ Count(Composed, GetFrontFolder) = 1
        /\ Count(Composed, GetBackFolder) = 1
        /\ \A i \in DOMAIN cfg : Count(Composed, cfg[i].Path) = 1

\* C4: with an empty residue (an empty PATH, or one of managed locations
\* only) the composed PATH is the front folder, the front directories, the
\* back directories and the back folder joined by single separators, with no
\* empty element; without managed directories it is front:back.
C4_EmptyResidue ==
    (out.cmd = "path" /\ Residue = <<>>) =>
        /\ out.text = StringsJoin(<<GetFrontFolder>> \o FrontPriorityDirs
                                    \o BackPriorityDirs \o <<GetBackFolder>>)
        /\ LET composed == Composed
           IN  \A i \in DOMAIN composed : composed[i] # <<>>
        /\ cfg = <<>> =>
             out.text = GetFrontFolder \o <<PathListSeparator>>
                          \o GetBackFolder

C4_Witness ==
    /\ out.cmd = "path"
    /\ pathEnv = <<>>
    /\ Len(FrontPriorityDirs) = 1
    /\ Len(BackPriorityDirs) = 1

\* C5 as stated: no directory string occurs twice in the composed PATH.
C5_NoDuplicates ==
    out.cmd = "path" =>
        \A i, j \in DOMAIN Composed : Composed[i] = Composed[j] => i = j

\* C5 as amended: a directory string that is no managed location occurs in
\* the composed PATH as many times as in the current PATH.
C5_ForeignCountsKept ==
    out.cmd = "path" =>
        LET composed == Composed
            current == CurrentEntries
        IN  \A e \in Range(current) \cup Range(composed) :
                IsForeign(e) => Count(composed, e) = Count(current, e)

C5_Witness ==
    /\ out.cmd = "path"
    /\ cfg # <<>>
    /\ \E e \in Range(CurrentEntries) :
          /\ IsForeign(e)
          /\ Count(CurrentEntries, e) = 2
          /\ Count(Composed, e) = 2

\* C6: the middle of the composed PATH is the current PATH without the
\* entries that equal a managed location character for character: such an
\* entry is dropped, any other entry (a managed path with a trailing slash
\* too) is kept, in order.
C6_ResidueExact ==
    out.cmd = "path" =>
        LET middle == Middle
            managed == ManagedLocations
        IN  /\ middle = Residue
            /\ \A e \in Range(CurrentEntries) :
                  e \in Range(middle) <=> e \notin managed

C6_Witness ==
    /\ out.cmd = "path"
    /\ DirA \in ManagedLocations
    /\ DirA \in Range(CurrentEntries)
    /\ DirASlash \in Range(CurrentEntries)
    /\ DirASlash \in Range(Middle)
    /\ DirA \notin Range(Middle)

\* -------------------------------------------------- properties: clash checks
\* The managed executables with the directory that hosts each: the symlinks
\* of the front folder, those of the back folder, and the executable files
\* of the managed directories.
HostedItems ==
    {<<n, GetFrontFolder>> : n \in {m \in Names : front[m].kind = "symlink"}}
    \cup {<<n, GetBackFolder>> :
             n \in {m \in Names : back[m].kind = "symlink"}}
    \cup {it \in Names \X {cfg[i].Path : i \in DOMAIN cfg} :
             /\ <<it[2], it[1]>> \in DOMAIN files
             /\ files[<<it[2], it[1]>>] = "exec"}

\* The indices of the non-managed PATH directories that hold a file named n,
\* and the least of them.
ForeignHits(n) ==
    {i \in DOMAIN CurrentEntries :
        /\ CurrentEntries[i] \notin ManagedLocations
        /\ StatOK(CurrentEntries[i], n)}
FirstHit(n) == CHOOSE i \in ForeignHits(n) : \A j \in ForeignHits(n) : i <= j

\* The least index of dir in PATH (dir is on PATH).
HostIndex(dir) ==
    CHOOSE i \in DOMAIN CurrentEntries :
        /\ CurrentEntries[i] = dir
        /\ \A j \in DOMAIN CurrentEntries : CurrentEntries[j] = dir => i <= j

\* The report due for the managed executable n hosted by host.
ExpectedClash(n, host) ==
    Clash(n,
          IF FirstHit(n) < HostIndex(host) THEN "masked by" ELSE "masks",
          FilepathJoin(CurrentEntries[FirstHit(n)], n))

\* The managed executables a report is due for.
ClashingItems ==
    {it \in HostedItems :
        /\ it[2] \in Range(CurrentEntries)
        /\ ForeignHits(it[1]) # {}}

\* C7: the summary reports, for each managed executable whose hosting
\* directory is on PATH, the first non-managed PATH directory holding a file
\* of its name: "masked by" when that directory comes before the hosting
\* directory, "masks" otherwise; and it reports nothing else.
C7_FirstForeignHit ==
    out.cmd = "summary" =>
        Range(out.clashes) = {ExpectedClash(it[1], it[2]) : it \in ClashingItems}

\* C8: a symlink is judged against the PATH position of the folder that
\* holds it: the back folder for a symlink of the back folder, the front
\* folder for a symlink of the front folder.
C8_HostPosition ==
    out.cmd = "summary" =>
        \A n \in Names :
            /\ (/\ back[n].kind = "symlink"
                /\ front[n].kind = "none"
                /\ <<n, GetBackFolder>> \in ClashingItems)
               => \E i \in DOMAIN out.clashes :
                     out.clashes[i] = ExpectedClash(n, GetBackFolder)
            /\ (/\ front[n].kind = "symlink"
                /\ back[n].kind = "none"
                /\ <<n, GetFrontFolder>> \in ClashingItems)
               => \E i \in DOMAIN out.clashes :
                     out.clashes[i] = ExpectedClash(n, GetFrontFolder)

\* The path names a file directly inside a managed location.
InManagedLocation(execPath) ==
    \E d \in ManagedLocations, n \in Names : execPath = FilepathJoin(d, n)

\* C9: no file of the front folder, the back folder or a managed directory
\* is reported by the summary as a clash, or makes `pathman add` refuse a
\* symlink for masking.
C9_ManagedNeverClash ==
    /\ out.cmd = "summary" =>
          \A i \in DOMAIN out.clashes :
              ~InManagedLocation(out.clashes[i].ExecPath)
    /\ (out.cmd = "add" /\ out.err \in {"will be masked by", "will mask"})
          => ~InManagedLocation(out.at)

\* The number of clashes reported for the name n.
ClashCount(n) ==
    Cardinality({i \in DOMAIN out.clashes : out.clashes[i].Name = n})

\* The number of managed items (symlinks, executables of managed
\* directories) named n.
ItemCount(n) ==
    (IF front[n].kind = "symlink" THEN 1 ELSE 0)
    + (IF back[n].kind = "symlink" THEN 1 ELSE 0)
    + Cardinality({i \in DOMAIN cfg :
                      /\ <<cfg[i].Path, n>> \in DOMAIN files
                      /\ files[<<cfg[i].Path, n>>] = "exec"})

\* C10 as stated: at most one clash is reported for a managed name.
C10_OnePerName ==
    out.cmd = "summary" => \A n \in Names : ClashCount(n) <= 1

\* C10 as amended: at most one clash is reported for each managed item, so a
\* name gets at most as many clashes as managed items hold it.
C10_OnePerItem ==
    out.cmd = "summary" => \A n \in Names : ClashCount(n) <= ItemCount(n)

C10_Witness ==
    /\ out.cmd = "summary"
    /\ \E n \in Names :
          /\ ItemCount(n) = 1
          /\ Cardinality(ForeignHits(n)) = 2
          /\ ClashCount(n) = 1

\* ---------------------------------------------------- properties: name clash
\* The names that are a symlink in the front folder and in the back folder.
SharedNames ==
    {n \in Names : front[n].kind = "symlink" /\ back[n].kind = "symlink"}

\* C11: the name-clash list `pathman summary` shows holds exactly the names
\* that are a symlink in both folders, each once: no other name, and no
\* name at all when the folders share none.
C11_NameClashes ==
    out.cmd = "summary" =>
        /\ Range(out.names) = SharedNames
        /\ Len(out.names) = Cardinality(SharedNames)

\* A summary that lists one shared name while the other name is a regular
\* file in both folders.
C11_Witness ==
    /\ out.cmd = "summary"
    /\ out.names = <<Bar>>
    /\ front[Foo].kind = "file"
    /\ back[Foo].kind = "file"

\* ------------------------------------------------------- properties: cleanup
\* The symlink items the scan holds for the child n of a folder.
SymlinkItems(folderPath, n) ==
    {i \in DOMAIN items :
        /\ items[i].Type = "symlink"
        /\ items[i].Path = FilepathJoin(folderPath, n)}

\* os.Stat finds nothing at the path a symlink points to.
Dangling(entry) == entry.kind = "symlink" /\ StatPath(entry.target) = "missing"

\* What C12 asks of the items about one folder.
BrokenExactly(folder, folderPath) ==
    \A n \in Names :
        /\ SymlinkItems(folderPath, n) # {} <=> Dangling(folder[n])
        /\ \A i \in SymlinkItems(folderPath, n) :
               items[i].Detail = folder[n].target

DirectoryItems(path) ==
    {i \in DOMAIN items :
        items[i].Type = "directory" /\ items[i].Path = path}

\* C13: right after the scan, each managed directory whose path does not
\* exist, or exists but cannot be used as a directory (os.Stat is refused,
\* or finds something that is not a directory), has exactly one candidate;
\* a healthy directory has none, and so has a path that is not in the list.
C13_DirectoryCandidates ==
    out.cmd = "clean scan" =>
        \A path \in KnownDirs :
            Cardinality(DirectoryItems(path)) =
                IF /\ \E i \in DOMAIN cfg : cfg[i].Path = path
                   /\ dirState[path] \in {"missing", "denied", "file"}
                THEN 1 ELSE 0

\* What the selected item i asked for has been done: its symlink is no
\* longer in its folder, its directory no longer in the configuration.
ItemApplied(i) ==
    IF items[i].Type = "symlink"
    THEN IF items[i].Priority = "front" THEN ~LstatOK(front', items[i].Name)
         ELSE ~LstatOK(back', items[i].Name)
    ELSE /\ \A k \in DOMAIN cfg' : cfg'[k].Path # items[i].Path
         /\ ConfigLoad(configFile').dirs = cfg'

\* C14: applying the batch deals with every selected item, whether or not
\* the removal of another selected item fails: afterwards no selected
\* symlink is left in its folder and no selected directory is left in the
\* saved configuration.
C14_BatchIndependent ==
    [][CleanConfirm => \A i \in DOMAIN items :
                          items[i].Selected => ItemApplied(i)]_vars

\* ------------------------------------------------- properties: configuration
\* No two entries of a managed-directory list have the same path.
OneEntryPerPath(c) == \A i, j \in DOMAIN c : c[i].Path = c[j].Path => i = j

\* Adding the managed directory d again keeps the length of the list and
\* every entry but d's, which only takes the priority asked for.
ReAddedInPlace(d, atFront) ==
    /\ Len(cfg') = Len(cfg)
    /\ \A k \in DOMAIN cfg :
          /\ cfg'[k].Path = cfg[k].Path
          /\ cfg[k].Path # d => cfg'[k] = cfg[k]
          /\ cfg[k].Path = d =>
                 cfg'[k].Priority = IF atFront THEN "front" ELSE "back"

\* C15: from the empty configuration, whatever directories are added and
\* removed, the list never holds two entries of one absolute path; and
\* adding a path that is already managed changes only the priority of its
\* entry, in place: same length, every entry at its position.
C15_OneEntryPerPath ==
    /\ []OneEntryPerPath(cfg)
    /\ [][\A d \in ConfigPaths, atFront \in BOOLEAN :
             (AddDirPrinting(d, atFront, TRUE)
                  /\ \E k \in DOMAIN cfg : cfg[k].Path = d)
                 => ReAddedInPlace(d, atFront)]_vars

\* DirA, added first with priority back, has just been given priority front
\* and is still the first of two entries.
C15_Witness ==
    /\ out.cmd = "add"
    /\ out.note = "Updated directory priority"
    /\ Len(cfg) = 2
    /\ cfg[1] = ManagedDirectory(DirA, "front")
    /\ cfg[2].Path = DirB

\* C16: loading config.json gives the list that was last saved: the same
\* entries with the same priorities in the same order, and no error; when
\* there is no config.json, loading gives the empty list and no error.
C16_SaveLoadRoundTrip ==
    /\ ConfigLoad(configFile) = [dirs |-> cfg, err |-> ""]
    /\ ~configFile.exists => ConfigLoad(configFile).dirs = <<>>

\* A saved file with two entries of different priorities.
C16_Witness ==
    /\ configFile.exists
    /\ Len(cfg) = 2
    /\ cfg[1].Priority = "back"
    /\ cfg[2].Priority = "front"
    /\ ConfigLoad(configFile).dirs = cfg

\* ------------------------------------------------------ properties: symlinks
\* The absolute path of each file `pathman add` is given, and the name its
\* symlink takes: the one asked for, or the file's own.
AbsolutePathOf(p) == IF p = Foo THEN ToolPath ELSE p
NameTaken(name) == IF name = <<>> THEN Foo ELSE name

\* The step leaves n a symlink to the absolute path of p in the folder of
\* the priority, and no symlink n in the other folder.
AddedOnlyThere(p, n, atFront) ==
    /\ (IF atFront THEN front' ELSE back')[n] = Symlink(AbsolutePathOf(p))
    /\ (IF atFront THEN back' ELSE front')[n].kind # "symlink"

\* The step returns an error and leaves both folders as they were.
AddRefused ==
    /\ out'.err # ""
    /\ front' = front
    /\ back' = back

\* The step succeeds and leaves n a symlink to the absolute path of p.
AddCreated(p, n, atFront) ==
    /\ out'.err = ""
    /\ (IF atFront THEN front' ELSE back')[n] = Symlink(AbsolutePathOf(p))

\* C17: after a successful add of a file under the name n with priority P,
\* n is a symlink to the absolute path of the file in the folder of
\* priority P, and the other folder holds no symlink n: a symlink of that
\* name in the other folder has moved.  (Each implication "the step is
\* this add => ..." is written with its conclusion first.)
C17_AddMoves ==
    [][(out'.cmd = "add" /\ out'.err = "") =>
          \A p \in AddedFiles, name \in {<<>>, Bar}, atFront \in BOOLEAN,
             force \in BOOLEAN :
               \/ AddedOnlyThere(p, NameTaken(name), atFront)
               \/ ~Add(p, name, atFront, force)]_vars

\* foo, given as a relative path, has been moved to the front folder.
C17_Witness ==
    /\ out.cmd = "add"
    /\ out.note = "Moved"
    /\ front[Foo] = Symlink(ToolPath)
    /\ back[Foo] = NoEntry

\* C18: when the target folder already holds the name, an add without
\* --force fails and leaves both folders as they were; an add with --force
\* succeeds and the name is a symlink to the file just given.
C18_ForceOverwrites ==
    [][out'.cmd = "add" =>
          \A p \in AddedFiles, name \in {<<>>, Bar}, atFront \in BOOLEAN :
              LET n == NameTaken(name)
              IN  (IF atFront THEN front ELSE back)[n].kind # "none" =>
                      /\ AddRefused \/ ~Add(p, name, atFront, FALSE)
                      /\ AddCreated(p, n, atFront)
                             \/ ~Add(p, name, atFront, TRUE)]_vars

\* An add refused because the back folder holds a symlink of the name.
C18_Witness ==
    /\ out.cmd = "add"
    /\ out.err = "symlink already exists"
    /\ out.at = Bar
    /\ back[Bar].kind = "symlink"

\* The folder of the priority is on PATH, and a directory of PATH that is
\* not a managed location holds a file of the name n.
MaskingAhead(n, atFront) ==
    LET entries == CurrentEntries
        managed == ManagedLocations
    IN  /\ \E i \in DOMAIN entries :
              entries[i] = IF atFront THEN GetFrontFolder ELSE GetBackFolder
        /\ \E i \in DOMAIN entries :
              /\ entries[i] \notin managed
              /\ <<entries[i], n>> \in DOMAIN files
              /\ files[<<entries[i], n>>] # "none"

\* C19: when the new symlink would mask, or be masked by, a file of its
\* name in an unrelated directory of PATH, an add without --force returns
\* an error and leaves both folders as they were; an add with --force
\* creates the symlink.
C19_MaskingRefused ==
    [][out'.cmd = "add" =>
          \A name \in {<<>>, Bar}, atFront \in BOOLEAN :
              LET n == NameTaken(name)
              IN  MaskingAhead(n, atFront) =>
                      \A p \in AddedFiles :
                          /\ AddRefused \/ ~Add(p, name, atFront, FALSE)
                          /\ AddCreated(p, n, atFront)
                                 \/ ~Add(p, name, atFront, TRUE)]_vars

\* An add to the back folder refused because DirU, earlier on PATH, holds
\* a file of the name.
C19_Witness ==
    /\ out.cmd = "add"
    /\ out.err = "will be masked by"
    /\ out.at = FilepathJoin(DirU, Foo)
    /\ back[Foo] = NoEntry

\* The name is a symlink of the folder.
HoldsSymlink(folder, name) == name \in Names /\ folder[name].kind = "symlink"

\* What C20 asks of a step that runs Remove(name).
RemovedAsClaimed(name) ==
    IF HoldsSymlink(front, name)
    THEN /\ out'.err = ""
         /\ front' = [front EXCEPT ![name] = NoEntry]
         /\ back' = back
         /\ cfg' = cfg
    ELSE IF HoldsSymlink(back, name)
    THEN /\ out'.err = ""
         /\ back' = [back EXCEPT ![name] = NoEntry]
         /\ front' = front
         /\ cfg' = cfg
    ELSE IF \E k \in DOMAIN cfg : cfg[k].Path = name
    THEN front' = front /\ back' = back
    ELSE /\ out'.err # ""
         /\ front' = front
         /\ back' = back
         /\ cfg' = cfg

\* C20: Remove(name) removes the symlink of that name from the folder that
\* holds it, the front folder first, and nothing else: one symlink at
\* most, every other child and the managed-directory list as they were;
\* when the name is neither a symlink of a folder nor a managed directory
\* it returns an error and changes nothing.
C20_RemoveFrame ==
    [][out'.cmd = "remove" =>
          \A name \in RemoveNames :
              RemovedAsClaimed(name) \/ ~Remove(name)]_vars

\* ------------------------------------------------------------ C21: Rename
\* The folder C21 speaks of: the one that holds oldName as a symlink, the
\* front folder first.
RenameFolder(oldName) == IF HoldsSymlink(front, oldName) THEN "front" ELSE "back"

\* What C21 asks of a step that runs Rename(oldName, newName).
RenamedAsClaimed(oldName, newName) ==
    LET inFront == RenameFolder(oldName) = "front"
        before == IF inFront THEN front ELSE back
        after == IF inFront THEN front' ELSE back'
    IN  /\ out'.err = "" =>
              /\ HoldsSymlink(before, oldName)
              /\ after[oldName] = NoEntry
              /\ after[newName] = before[oldName]
              /\ \A other \in Names \ {oldName, newName} :
                     after[other] = before[other]
              /\ IF inFront THEN back' = back ELSE front' = front
        /\ (HoldsSymlink(before, oldName) /\ LstatOK(before, newName)) =>
              /\ out'.err # ""
              /\ UNCHANGED <<front, back>>

MovedAsClaimed(name, toFront) ==
    LET from == IF toFront THEN back ELSE front
        to == IF toFront THEN front ELSE back
        fromAfter == IF toFront THEN back' ELSE front'
        toAfter == IF toFront THEN front' ELSE back'
    IN  /\ out'.err = "" =>
              /\ HoldsSymlink(from, name)
              /\ toAfter[name] = from[name]
              /\ fromAfter[name] = NoEntry
              /\ \A other \in Names \ {name} :
                     /\ toAfter[other] = to[other]
                     /\ fromAfter[other] = from[other]
        /\ (HoldsSymlink(to, name) \/ ~HoldsSymlink(from, name)) =>
              /\ out'.err # ""
              /\ UNCHANGED <<front, back>>

\* C22: SetPriority(name, P) moves a symlink between the front and the back
\* folder: after a success the symlink is in folder P only, with the target
\* it had, and no longer where it was; when the name is already a symlink in
\* folder P, or is not a symlink in the other folder, the call fails and
\* both folders stay as they were.
C22_PriorityMoves ==
    [][out'.cmd = "priority" =>
          \A name \in Names, toFront \in BOOLEAN :
              \/ MovedAsClaimed(name, toFront)
              \/ ~SetPriority(name, toFront)]_vars

\* foo, pointing to /p/foo, has been moved from the back folder to the front
\* folder.
C22_Witness ==
    /\ out.cmd = "priority"
    /\ out.err = ""
    /\ out.at = Foo
    /\ front[Foo] = Symlink(ToolPath2)
    /\ back[Foo] = NoEntry

\* ------------------------------------------------------ C23: confirmation
\* The confirmation screen of the clean UI is showing.
OnConfirmScreen(m) == m.stage = "clean" /\ ~m.done /\ m.confirm

\* The selection screen of the clean UI is showing.
OnSelectionScreen(m) == m.stage = "clean" /\ ~m.done /\ ~m.confirm

\* Nothing of what the cleanup works on changes in the step.
DiskUnchanged == UNCHANGED <<front, back, cfg, configFile>>

\* C23: in the clean UI nothing is deleted unless the user confirms: a step
\* that changes a folder or the configuration is the key y on the
\* confirmation screen, the confirmation screen is only ever reached by
\* Enter on the selection screen, and q, ctrl+c, n and esc change nothing on
\* disk on either screen.
C23_ConfirmedOnly ==
    [][/\ DiskUnchanged
          \/ /\ OnConfirmScreen(model)
             /\ cleanUpdate("y") \/ cleanUpdate("Y")
       /\ ~OnConfirmScreen(model')
          \/ OnConfirmScreen(model)
          \/ /\ OnSelectionScreen(model)
             /\ cleanUpdate("enter")
       /\ \A key \in {"q", "ctrl+c", "n", "esc"} :
              DiskUnchanged \/ ~cleanUpdate(key)]_vars

\* y on the confirmation screen has removed the broken symlink foo from the
\* front folder.
C23_Witness ==
    /\ model.stage = "clean"
    /\ model.done
    /\ model.confirm
    /\ out.cmd = "clean"
    /\ out.err = ""
    /\ \E i \in DOMAIN items :
          /\ items[i].Selected
          /\ items[i].Type = "symlink"
          /\ items[i].Name = Foo
          /\ items[i].Priority = "front"
    /\ front[Foo] = NoEntry

\* ------------------------------------------- C26: "Press any key to return"
\* C26: when the confirmation screen of the clean UI shows "Press any key to
\* return." (no item is selected), every key brings back the selection
\* screen.
C26_AnyKeyReturns ==
    [][(OnConfirmScreen(model) /\ View = "Press any key to return.") =>
          \A key \in Keys :
              OnSelectionScreen(model') \/ ~cleanUpdate(key)]_vars

\* ------------------------------------------------- C29: the final message
\* The clean UI has quit and its last view is the message of success.
ClaimsSuccess ==
    /\ model.stage = "clean"
    /\ model.done
    /\ View = "Successfully cleaned up"

\* C29: the clean UI ends on "Successfully cleaned up N item(s)." only when
\* the cleanup has run and has succeeded; after q, n or esc with items
\* selected the last view does not say so.
C29_SuccessOnlyAfterCleanup ==
    ClaimsSuccess => (out.cmd = "clean" /\ out.err = "")

\* ------------------------------------------------ C24: default priority
\* After the step, p is held with back priority: a file as a symlink of the
\* back folder and not of the front folder, a directory as a configuration
\* entry of priority back.
AddedAtBack(p) ==
    LET absPath == FilepathAbs(p)
    IN  IF StatPath(absPath) = "dir"
        THEN \E i \in DOMAIN cfg' :
                 cfg'[i] = ManagedDirectory(absPath, "back")
        ELSE /\ back'[FilepathBase(absPath)] = Symlink(absPath)
             /\ front'[FilepathBase(absPath)] = NoEntry

\* C24: `pathman add <path>` without --priority adds with back priority: a
\* file is symlinked into the back folder, a directory is recorded with
\* priority back.
C24_DefaultBack ==
    [][(out'.cmd = "add" /\ out'.err = "") =>
          \A p \in AddedFiles \cup {DirB}, force \in BOOLEAN :
              AddedAtBack(p) \/ ~AddCmd(p, <<>>, <<>>, force)]_vars

\* ------------------------------------------------------ C25: AddToProfile
\* C25: AddToProfile appends the snippet only to a profile without a pathman
\* export: a call that follows a call that appended finds that snippet,
\* appends nothing and leaves exactly one copy.
C25_SecondCallAppendsNothing ==
    [][(/\ out.cmd = "profile"
        /\ out.note = "Added PATH export"
        /\ out'.cmd = "profile") =>
          (profile' = profile /\ SnippetCopies(profile') = 1)]_vars

\* ------------------------------------------------- C27: one folder per name
\* No name is a symlink of both the front and the back folder.
NoSharedName(f, b) ==
    \A name \in Names : ~(HoldsSymlink(f, name) /\ HoldsSymlink(b, name))

\* C27: from folders that share no symlink name, no Add, Remove, Rename or
\* SetPriority leads to folders that hold the same name both.
C27_NoSharedNames ==
    [][NoSharedName(front, back) => NoSharedName(front', back')]_vars

\* ---------------------------------------------- C28: regular files are kept
\* The regular files of folder before are regular files of folder after.
RegularFilesKept(before, after) ==
    \A name \in Names : before[name] = RegularFile => after[name] = RegularFile

\* C28: no operation deletes or replaces a file of the front or the back
\* folder that is not a symlink: a regular file that is there before an Add
\* (with or without --force), a Remove, a Rename, a SetPriority or a cleanup
\* is there afterwards.
C28_RegularFilesKept ==
    [][RegularFilesKept(front, front') /\ RegularFilesKept(back, back')]_vars

\* ------------------------------------------------------------ C30: init UI
\* The profile update is running or has just run.
UpdatingProfile ==
    running.kind \in {"cmd", "msg"}
        /\ running.name \in {"updateProfile", "profileUpdateMsg"}

\* The init UI is running and has not reached the stage done.
InitUnderWay == model.stage \in InitStages \ {"done"}

\* C30: in the init UI the profile is written only after the user has chosen
\* "Yes, add to profile" at the prompt: the update is started by Enter or
\* Space on the first choice of the prompt stage and by nothing else, the
\* profile changes only while that update runs, the manual choice and
\* quitting start no update; and the UI, wherever it is, reaches the stage
\* done when the user answers each prompt and each command that was started
\* delivers its message.
C30_ProfileOnlyOnYes ==
    /\ [][/\ (UpdatingProfile' /\ ~UpdatingProfile) =>
                /\ model.stage = "prompt"
                /\ model.cursor = 0
                /\ model'.shouldAddToProfile
                /\ initUpdateKey("enter") \/ initUpdateKey(" ")
          /\ profile' # profile =>
                /\ running = Cmd("updateProfile")
                /\ model.shouldAddToProfile
          /\ (model.stage = "prompt" /\ model'.stage # "prompt"
                 /\ ~model'.shouldAddToProfile) =>
                ~UpdatingProfile']_vars
    /\ [](UpdatingProfile => model.shouldAddToProfile)
    /\ (InitUnderWay ~> model.stage = "done")

\* The user has chosen yes, the snippet is in the profile and the UI is done.
C30_Witness ==
    /\ model.stage = "done"
    /\ model.shouldAddToProfile
    /\ model.err = ""
    /\ profile.exists
    /\ SnippetCopies(profile) = 1
    /\ out.note = "Added PATH export"
====
